---------------------------- MODULE Spec2Model ----------------------------
(***************************************************************************)
(* Chunk-transfer protocol of WebRTCManager (client/src/lib/webrtc.ts,     *)
(* lines 20-379: the checksummed, repair-capable generation).              *)
(*                                                                         *)
(* The specifications below share the definitions:                         *)
(*   Spec         the receiver (handleDataChannelMessage) fed any message  *)
(*   TransferSpec one file, its packets carried by an unordered, lossy     *)
(*                network to the receiver, repair requests carried back    *)
(*   CodecSpec    createPacket and the receiver's header decoding, as pure *)
(*                functions of one (index, payload), 16-bit width kept     *)
(*   SendSpec     sendFile and sendWithBackpressure over the channel set   *)
(*   CloseSpec    Spec with close() called at any point                    *)
(*   FairTransferSpec, FairSendSpec: TransferSpec and SendSpec under the   *)
(*                platform's scheduling                                    *)
(*   ChannelSpec  sendFile, the receiver and resendChunks over open,       *)
(*                lossless channels, each in order, interleaved freely     *)
(*   ProgressSpec updateProgress and its callers under a coarse clock      *)
(*   ThrottleSpec the progress throttles of sendFile and of the receiver   *)
(*                under a clock at the scale of the 100 ms window          *)
(*   IsolationSpec two transfers, one after the other, on the same         *)
(*                channels                                                 *)
(*   WakeSpec, FairWakeSpec: sendFile and resendChunks sending at the same *)
(*                time through sendWithBackpressure                        *)
(*   SupersededSpec the earlier receiver (lines 608-655)                   *)
(*   SignalSpec   the signaling server's rooms (server/routes.ts) and the  *)
(*                room storage                                             *)
(*                                                                         *)
(* The receiver and sender steps of the transfer specifications leave out  *)
(* updateProgress (lines 245-256) and the fields only it reads or writes   *)
(* (lastProgressTime, lastProgressBytes, lastReceiverProgressUpdateTime,   *)
(* transferStartTime); nothing of the transfer reads them.  ProgressSpec   *)
(* and ThrottleSpec model them.                                            *)
(***************************************************************************)
EXTENDS Integers, Sequences, FiniteSets, TLC

VARIABLES
    rx,          \* the receiving manager's transfer fields, with its outputs
    sentFile,    \* the sending manager's sentFile: the blob's bytes, or NoFile
    inflight,    \* TransferSpec: chunk packets on their way to the receiver
    upstream,    \* TransferSpec: repair requests on their way to the sender
    net,         \* TransferSpec: what the network has done so far
    codec,       \* CodecSpec: one packet through createPacket and the decoder
    tx,          \* SendSpec: sendFile's position and locals
    activeChannels, \* SendSpec: the channel set, each channel's fields
    handed,      \* SendSpec: every channel.send call so far, in order
    progress,    \* ProgressSpec: the clock, updateProgress's fields, its report
    repair,      \* WakeSpec: resendChunks' position and locals, and for every
                 \* channel the caller whose promise its handler resolves
    server       \* SignalSpec: the signaling server's activeRooms, the room
                 \* storage, the sockets, and who joined what

vars == <<rx, sentFile, inflight, upstream, net, codec, tx, activeChannels, handed,
          progress, repair, server>>

(***************************************************************************)
(* Bounds of the model                                                     *)
(***************************************************************************)
\* largest totalChunks a file-metadata message declares in Spec
MaxChunks == 2
\* largest chunk index a binary packet carries in Spec (beyond MaxChunks - 1,
\* so that packets outside [0, expectedChunks) arrive)
MaxIndex == 2
\* bytes per chunk: stands for CHUNK_SIZE (260000), scaled
ChunkSize == 2
\* largest blob, in bytes
MaxFileSize == 7
\* channels in the channel set: stands for MAX_PARALLEL_CHANNELS (4), scaled
NumChannels == 2
\* stands for bufferedAmountLowThreshold (8 MB), scaled to a few packets
LowThreshold == 4

(***************************************************************************)
(* Program constants                                                       *)
(***************************************************************************)
MAX_RETRIES == 5

\* no blob: sentFile = null (no byte is -1)
NoFile == <<-1>>
\* an array slot holding undefined
Undefined == <<-1>>

(***************************************************************************)
(* Bytes                                                                   *)
(***************************************************************************)
RECURSIVE Xor(_, _)
\* a ^ b on naturals
Xor(a, b) ==
    IF a = 0 THEN b
    ELSE IF b = 0 THEN a
    ELSE 2 * Xor(a \div 2, b \div 2) + ((a + b) % 2)

RECURSIVE quickChecksumFrom(_, _, _)
quickChecksumFrom(data, k, sum) ==
    IF k > Len(data) THEN sum
    ELSE quickChecksumFrom(data, k + 1, Xor(sum, data[k]))

\* no byte looked at
quickChecksumZero(data) == 0

\* only the first byte looked at
quickChecksumFirstByte(data) == IF data = <<>> THEN 0 ELSE data[1]

\* new Uint8Array(data).reduce((sum, byte) => sum ^ byte, 0)
quickChecksum(data) == quickChecksumFrom(data, 1, 0)

\* DataView.setUint16(0, index, true): ToUint16(index), low byte first
Uint16LE(index) == <<(index % 65536) % 256, (index % 65536) \div 256>>

\* DataView.getUint16(0, true)
GetUint16LE(data) == data[1] + 256 * data[2]

\* 3-byte header [index (2 bytes), checksum (1 byte)], then the payload
createPacket(index, data) ==
    Uint16LE(index) \o <<quickChecksum(data)>> \o data

Min(a, b) == IF a < b THEN a ELSE b

\* never fewer than one chunk
TotalChunksAtLeastOne(file) ==
    IF Len(file) = 0 THEN 1 ELSE (Len(file) + ChunkSize - 1) \div ChunkSize

\* Math.ceil(file.size / CHUNK_SIZE)
TotalChunks(file) == (Len(file) + ChunkSize - 1) \div ChunkSize

\* file.slice(start, end) with start = index * CHUNK_SIZE,
\* end = Math.min(start + CHUNK_SIZE, file.size)
FileSlice(file, index) ==
    LET start == index * ChunkSize
        end   == Min(start + ChunkSize, Len(file))
    IN  SubSeq(file, start + 1, end)

(***************************************************************************)
(* Transport messages: a string (JSON text) or an ArrayBuffer              *)
(***************************************************************************)
StringMsg(json) == [kind |-> "string", json |-> json]
BinaryMsg(bytes) == [kind |-> "binary", bytes |-> bytes]

MetadataMsg(fileName, fileSize, fileType, totalChunks) ==
    StringMsg([type |-> "file-metadata", fileName |-> fileName,
               fileSize |-> fileSize, fileType |-> fileType,
               totalChunks |-> totalChunks])

CompleteMsg == StringMsg([type |-> "file-complete"])

RequestMsg(indices) ==
    StringMsg([type |-> "request-missing-chunks", indices |-> indices])

\* a text that is not JSON: JSON.parse (line 261) throws a SyntaxError
NotJsonText == StringMsg([type |-> "SyntaxError"])

\* the text "null": JSON.parse gives null, and message.type (line 262)
\* throws a TypeError
NullText == StringMsg([type |-> "TypeError"])

\* a JSON object whose type is none of the three
UnknownTypeText == StringMsg([type |-> "unknown"])

\* handling the text throws inside the try of line 259
Throws(data) == data.json.type \in {"SyntaxError", "TypeError"}

(***************************************************************************)
(* Receiver                                                                *)
(***************************************************************************)
\* the fields at construction (lines 28-39); deliveries and deliveredBlob
\* record the onFileReceivedCallback calls, requests and requestedIndices the
\* request-missing-chunks messages handed to activeChannels[0], exhausted the
\* console.error of line 344: each since the last file-metadata; closed:
\* close() has emptied this manager's activeChannels
RxInit ==
    [receivedChunks |-> <<>>,
     expectedChunks |-> 0,
     currentFileName |-> "",
     currentFileSize |-> 0,
     currentFileType |-> "",
     fileReconstructionTriggered |-> FALSE,
     missingChunkRetries |-> 0,
     deliveries |-> 0,
     deliveredBlob |-> <<>>,
     requests |-> 0,
     requestedIndices |-> <<>>,
     exhausted |-> FALSE,
     closed |-> FALSE]

\* Map.has
MapHas(map, key) == key \in DOMAIN map

\* Map.size
MapSize(map) == Cardinality(DOMAIN map)

\* Map.get: the value, or undefined
MapGet(map, key) == IF key \in DOMAIN map THEN map[key] ELSE Undefined

\* Map.set: the key's value replaced, or the key added
MapSet(map, key, value) ==
    [k \in DOMAIN map \cup {key} |-> IF k = key THEN value ELSE map[k]]

RECURSIVE MissingFrom(_, _, _)
\* for (let i = 0; i < expectedChunks; i++) if (!receivedChunks.has(i)) push(i)
MissingFrom(map, i, expected) ==
    IF i >= expected THEN <<>>
    ELSE (IF MapHas(map, i) THEN <<>> ELSE <<i>>) \o MissingFrom(map, i + 1, expected)

\* stops at the first missing index
MissingIndicesFirstOnly(r) ==
    LET all == MissingFrom(r.receivedChunks, 0, r.expectedChunks)
    IN  IF all = <<>> THEN <<>> ELSE <<Head(all)>>

MissingIndices(r) == MissingFrom(r.receivedChunks, 0, r.expectedChunks)

\* const chunks = new Array(expectedChunks); chunks[i] = receivedChunks.get(i)
AssembleChunks(r) ==
    [i \in 1..r.expectedChunks |-> MapGet(r.receivedChunks, i - 1)]

\* the transfer's chunks dropped on an error
CatchErrorClears(r) == [r EXCEPT !.receivedChunks = <<>>]

\* the transfer closed on an error
CatchErrorAborts(r) == [r EXCEPT !.fileReconstructionTriggered = TRUE]

\* the catch of lines 301-303: console.error, nothing else
CatchError(r) == r

\* a request whatever is missing
RequestAlways(missingIndices) == TRUE

\* the test of line 336
RequestNeeded(missingIndices) == Len(missingIndices) > 0

\* close(), lines 367-374: the channels closed, activeChannels emptied, the
\* peer connection closed; the transfer fields are not touched
close(r) == [r EXCEPT !.closed = TRUE]

\* the guard left out
NeverTriggered(r) == FALSE

\* the one-shot guard of line 324
AlreadyTriggered(r) == r.fileReconstructionTriggered

\* off by one: <= for <
MayRetryOffByOne(r) == r.missingChunkRetries <= MAX_RETRIES

\* the retry guard of line 327
MayRetry(r) == r.missingChunkRetries < MAX_RETRIES

\* an attempt that finds the store short closes the transfer
reconstructOrAbandon(r) ==
    IF AlreadyTriggered(r) THEN r
    ELSE IF MapSize(r.receivedChunks) # r.expectedChunks
    THEN [r EXCEPT !.fileReconstructionTriggered = TRUE]
    ELSE [r EXCEPT !.fileReconstructionTriggered = TRUE,
                   !.deliveries = @ + 1,
                   !.deliveredBlob = AssembleChunks(r)]

\* with activeChannels emptied by close(), activeChannels[0].send (line
\* 338) throws a TypeError, which handleDataChannelMessage catches
reconstructAndDownloadFile(r) ==
    IF AlreadyTriggered(r) THEN r
    ELSE IF MapSize(r.receivedChunks) # r.expectedChunks
    THEN IF MayRetry(r)
         THEN LET missingIndices == MissingIndices(r)
                  counted == [r EXCEPT !.missingChunkRetries = @ + 1]
              IN  IF RequestNeeded(missingIndices)
                  THEN IF r.closed THEN CatchError(counted)
                       ELSE [counted EXCEPT !.requests = @ + 1,
                                            !.requestedIndices = missingIndices]
                  ELSE counted
         ELSE [r EXCEPT !.exhausted = TRUE]
    ELSE [r EXCEPT !.fileReconstructionTriggered = TRUE,
                   !.deliveries = @ + 1,
                   !.deliveredBlob = AssembleChunks(r)]

\* the file-metadata branch without the reset of the retry counter
HandleMetadataKeepsRetries(r, message) ==
    [r EXCEPT !.receivedChunks = <<>>,
              !.expectedChunks = message.totalChunks,
              !.currentFileName = message.fileName,
              !.currentFileSize = message.fileSize,
              !.currentFileType = message.fileType,
              !.fileReconstructionTriggered = FALSE,
              !.deliveries = 0,
              !.deliveredBlob = <<>>,
              !.requests = 0,
              !.requestedIndices = <<>>]

\* the file-metadata branch, lines 262-270
HandleMetadata(r, message) ==
    [r EXCEPT !.receivedChunks = <<>>,
              !.expectedChunks = message.totalChunks,
              !.currentFileName = message.fileName,
              !.currentFileSize = message.fileSize,
              !.currentFileType = message.fileType,
              !.fileReconstructionTriggered = FALSE,
              !.missingChunkRetries = 0,
              !.deliveries = 0,
              !.deliveredBlob = <<>>,
              !.requests = 0,
              !.requestedIndices = <<>>,
              !.exhausted = FALSE]

\* stored in arrival order, not under the index
StoreKeyByArrival(r, index) == MapSize(r.receivedChunks)

\* an index already present stored under a fresh key
StoreKeyFresh(r, index) ==
    IF MapHas(r.receivedChunks, index)
    THEN index + MapSize(r.receivedChunks) ELSE index

\* the key a valid packet is stored under, line 284
StoreKey(r, index) == index

\* a matching packet stored, reconstruction left to file-complete
HandleBinaryNoTrigger(r, data) ==
    IF Len(data) < 3 THEN r
    ELSE LET chunkData == SubSeq(data, 4, Len(data))
         IN  IF quickChecksum(chunkData) = data[3]
             THEN [r EXCEPT !.receivedChunks =
                      MapSet(@, StoreKey(r, GetUint16LE(data)), chunkData)]
             ELSE r

\* the ArrayBuffer branch, lines 276-300; new DataView(data, 0, 3) throws a
\* RangeError on fewer than 3 bytes, which the catch of line 301 swallows
HandleBinary(r, data) ==
    IF Len(data) < 3 THEN CatchError(r)
    ELSE LET index     == GetUint16LE(data)
             checksum  == data[3]
             chunkData == SubSeq(data, 4, Len(data))
         IN  IF quickChecksum(chunkData) = checksum
             THEN LET stored == [r EXCEPT !.receivedChunks =
                                     MapSet(@, StoreKey(r, index), chunkData)]
                  IN  IF MapSize(stored.receivedChunks) = stored.expectedChunks
                      THEN reconstructAndDownloadFile(stored)
                      ELSE stored
             ELSE r

\* request-missing-chunks is the sending side's message; the receiving
\* manager of Spec and TransferSpec has no sentFile, so resendChunks returns
\* at line 309
handleDataChannelMessage(r, data) ==
    IF data.kind = "string"
    THEN IF Throws(data) THEN CatchError(r)
         ELSE IF data.json.type = "file-metadata" THEN HandleMetadata(r, data.json)
         ELSE IF data.json.type = "file-complete" THEN reconstructAndDownloadFile(r)
         ELSE r
    ELSE HandleBinary(r, data.bytes)

\* the variables a specification does not use keep these values; arrived:
\* the indices of the packets that reached the receiver with a payload
\* matching their checksum byte, mismatch: the last message to reach it was a
\* packet whose payload does not match, sent and recv: per channel, how many
\* of the messages handed to it have left its buffer and have reached the
\* peer, overtaken: a chunk packet reached the receiver before file-metadata,
\* last: what the last message to reach the receiver was, declared: the
\* fields of the last file-metadata, before: with last = "metadata", where
\* the receiver stood when it arrived
IdleNet == [metadataDelivered |-> FALSE, completeDelivered |-> FALSE,
            earlyComplete |-> FALSE, arrived |-> {}, withheld |-> {},
            lastArrived |-> -1, outOfOrder |-> FALSE, resends |-> 0,
            mismatch |-> FALSE, sent |-> <<>>, recv |-> <<>>,
            overtaken |-> FALSE, last |-> "none",
            declared |-> MetadataMsg("", 0, "", 0).json, before |-> "none", dup |-> FALSE]
IdleCodec == [stage |-> "idle"]
\* lastProgressTime and lastProgressBytes as constructed (lines 34-35), the
\* clock at some time after the epoch, no report made
\* lastProgressUpdateTime is sendFile's local of line 163 and sent the end
\* of its last chunk; lastReceiverProgressUpdateTime is the field of line 37;
\* sample is the report just made, with the time of the throttled report
\* before it on the same path (-1: none), which senderPrev and receiverPrev
\* keep
IdleProgress ==
    [clock |-> 1, lastProgressTime |-> 0, lastProgressBytes |-> 0,
     fileSize |-> 0, currentFileSize |-> 0,
     lastProgressUpdateTime |-> 0, lastReceiverProgressUpdateTime |-> 0,
     sending |-> FALSE, sent |-> 0,
     senderPrev |-> -1, receiverPrev |-> -1,
     sample |-> [path |-> "none", at |-> 0, previous |-> -1],
     report |-> [called |-> FALSE, divisorZero |-> FALSE,
                 speed |-> [num |-> 0, den |-> 1],
                 timeRemaining |-> [num |-> 0, den |-> 1]]]
\* channel, data and sending describe the suspended sendWithBackpressure
\* call and hold these fillers otherwise; passed records the chunk loop's
\* sendWithBackpressure calls, in order; indices and k are resendChunks'
\* argument and the position of its loop; resent records resendChunks'
\* sendWithBackpressure calls, in order, each with the index it was for
IdleTx == [pc |-> "idle", totalChunks |-> 0, i |-> 0, channelIndex |-> 0,
           waiting |-> {}, channel |-> 0, data |-> CompleteMsg,
           sending |-> "none", resumes |-> 0, passed |-> <<>>,
           indices |-> <<>>, k |-> 0, resent |-> <<>>]

\* registerRoutes has run (activeRooms = new Map(), routes.ts line 21), the
\* storage is as constructed (MemStorage.rooms = new Map()), no socket has
\* connected
IdleServer ==
    [activeRooms |-> <<>>, rooms |-> <<>>, connected |-> {}, gone |-> {},
     joined |-> {}]

\* resendChunks not called, and no handler installed on a channel
IdleRepair == [tx |-> IdleTx, owner |-> [c \in 0..(NumChannels - 1) |-> "none"]]

(***************************************************************************)
(* Spec: the receiver under any sequence of messages                       *)
(***************************************************************************)
Payloads == {<<1>>, <<1, 2>>}

MetadataInputs ==
    {MetadataMsg("a.bin", n * ChunkSize, "application/octet-stream", n) :
        n \in 0..MaxChunks}

\* packets with a matching and with a flipped checksum byte, and two
\* messages shorter than the header
BinaryInputs ==
    {BinaryMsg(<<lo, 0, Xor(quickChecksum(p), flip)>> \o p) :
        lo \in 0..MaxIndex, flip \in {0, 1}, p \in Payloads}
    \cup {BinaryMsg(<<>>), BinaryMsg(<<0, 0>>)}

Init ==
    /\ rx = RxInit
    /\ sentFile = NoFile
    /\ inflight = {}
    /\ upstream = {}
    /\ net = IdleNet
    /\ codec = IdleCodec
    /\ tx = IdleTx
    /\ activeChannels = <<>>
    /\ handed = <<>>
    /\ server = IdleServer
    /\ repair = IdleRepair
    /\ progress = IdleProgress

RECURSIVE PayloadXor(_)
\* the XOR of the bytes, first to last
PayloadXor(bytes) ==
    IF bytes = <<>> THEN 0 ELSE Xor(Head(bytes), PayloadXor(Tail(bytes)))

\* the message has a header, and its checksum byte is the XOR of its payload
HeaderMatches(bytes) ==
    Len(bytes) >= 3 /\ bytes[3] = PayloadXor(SubSeq(bytes, 4, Len(bytes)))

\* where a transfer stands
Standing(r) ==
    IF r.deliveries > 0 THEN "delivered"
    ELSE IF r.exhausted THEN "exhausted"
    ELSE IF r.receivedChunks # <<>> THEN "mid-transfer"
    ELSE "new"

\* text messages that are no control message
MalformedInputs == {NotJsonText, NullText, UnknownTypeText}

\* channel.onmessage with a file-metadata message
RecvMetadata ==
    /\ \E m \in MetadataInputs :
        /\ rx' = handleDataChannelMessage(rx, m)
        /\ net' = [net EXCEPT !.arrived = {}, !.mismatch = FALSE,
                              !.metadataDelivered = TRUE,
                              !.last = "metadata",
                              !.declared = m.json, !.before = Standing(rx),
                              !.dup = FALSE]
    /\ UNCHANGED <<server, repair, progress, sentFile, inflight, upstream, codec, tx, activeChannels, handed>>

\* channel.onmessage with a file-complete message
RecvComplete ==
    /\ rx' = handleDataChannelMessage(rx, CompleteMsg)
    /\ net' = [net EXCEPT !.mismatch = FALSE, !.last = "complete",
                          !.before = "none", !.dup = FALSE]
    /\ UNCHANGED <<server, repair, progress, sentFile, inflight, upstream, codec, tx, activeChannels, handed>>

\* channel.onmessage with a text that is no control message
RecvMalformed ==
    /\ \E m \in MalformedInputs : rx' = handleDataChannelMessage(rx, m)
    /\ net' = [net EXCEPT !.mismatch = FALSE, !.last = "malformed",
                          !.before = "none", !.dup = FALSE]
    /\ UNCHANGED <<server, repair, progress, sentFile, inflight, upstream, codec, tx, activeChannels, handed>>

\* channel.onmessage with an ArrayBuffer
RecvBinary ==
    /\ \E m \in BinaryInputs :
        /\ rx' = handleDataChannelMessage(rx, m)
        /\ net' = [net EXCEPT
                     !.arrived = IF HeaderMatches(m.bytes)
                                 THEN @ \cup {GetUint16LE(m.bytes)} ELSE @,
                     !.mismatch = Len(m.bytes) >= 3 /\ ~HeaderMatches(m.bytes),
                     !.last = IF Len(m.bytes) < 3 THEN "short" ELSE "packet",
                     !.before = "none",
                     !.dup = /\ HeaderMatches(m.bytes)
                             /\ MapHas(rx.receivedChunks, GetUint16LE(m.bytes))]
    /\ UNCHANGED <<server, repair, progress, sentFile, inflight, upstream, codec, tx, activeChannels, handed>>

Next == RecvMetadata \/ RecvComplete \/ RecvBinary \/ RecvMalformed

Spec == Init /\ [][Next]_vars

(***************************************************************************)
(* CloseSpec: the receiver under any sequence of messages, with close()    *)
(* called at any point.  The handler tests nothing of the session, so a    *)
(* message dispatched after the call is handled like any other.            *)
(***************************************************************************)
\* close() is called on the receiving manager
Close ==
    /\ ~rx.closed
    /\ rx' = close(rx)
    /\ net' = [net EXCEPT !.mismatch = FALSE, !.last = "close",
                          !.before = "none", !.dup = FALSE]
    /\ UNCHANGED <<server, repair, progress, sentFile, inflight, upstream, codec, tx, activeChannels, handed>>

CloseNext ==
    \/ RecvMetadata
    \/ RecvComplete
    \/ RecvBinary
    \/ RecvMalformed
    \/ Close

CloseSpec == Init /\ [][CloseNext]_vars

(***************************************************************************)
(* SupersededSpec: the receiver of the earlier generation of the manager   *)
(* (second WebRTCManager of webrtc.ts, lines 400-672) under any sequence   *)
(* of messages.  Its packets carry a length-prefixed JSON header with the  *)
(* index and no checksum; a packet is given here as the index and the      *)
(* payload its decoding yields (lines 624-627).  There is no repair.       *)
(***************************************************************************)
SupersededPacket(index, chunkData) ==
    [kind |-> "binary", index |-> index, chunkData |-> chunkData]

RECURSIVE SortedValues(_)
\* Array.from(map.entries()).sort((a, b) => a[0] - b[0]).map(entry => entry[1])
SortedValues(map) ==
    IF DOMAIN map = {} THEN <<>>
    ELSE LET least == CHOOSE k \in DOMAIN map : \A j \in DOMAIN map : k <= j
         IN  <<map[least]>>
             \o SortedValues([j \in DOMAIN map \ {least} |-> map[j]])

\* the one-shot flag set after the size check, as the later generation does
SupersededReconstructFlagLate(r) ==
    IF r.fileReconstructionTriggered THEN r
    ELSE IF MapSize(r.receivedChunks) # r.expectedChunks THEN r
    ELSE [r EXCEPT !.fileReconstructionTriggered = TRUE,
                   !.deliveries = @ + 1,
                   !.deliveredBlob = SortedValues(r.receivedChunks)]

\* reconstructAndDownloadFile of the earlier generation, lines 643-655
SupersededReconstructAndDownloadFile(r) ==
    IF r.fileReconstructionTriggered THEN r
    ELSE LET triggered == [r EXCEPT !.fileReconstructionTriggered = TRUE]
         IN  IF MapSize(r.receivedChunks) # r.expectedChunks THEN triggered
             ELSE [triggered EXCEPT
                      !.deliveries = @ + 1,
                      !.deliveredBlob = SortedValues(r.receivedChunks)]

\* handleDataChannelMessage of the earlier generation, lines 608-641
SupersededHandleDataChannelMessage(r, data) ==
    IF data.kind = "string"
    THEN IF Throws(data) THEN r
         ELSE IF data.json.type = "file-metadata"
         THEN [r EXCEPT !.receivedChunks = <<>>,
                        !.expectedChunks = data.json.totalChunks,
                        !.currentFileName = data.json.fileName,
                        !.currentFileSize = data.json.fileSize,
                        !.currentFileType = data.json.fileType,
                        !.fileReconstructionTriggered = FALSE,
                        !.deliveries = 0,
                        !.deliveredBlob = <<>>]
         ELSE IF data.json.type = "file-complete"
         THEN SupersededReconstructAndDownloadFile(r)
         ELSE r
    ELSE LET stored == [r EXCEPT !.receivedChunks =
                           MapSet(@, data.index, data.chunkData)]
         IN  IF MapSize(stored.receivedChunks) = stored.expectedChunks
             THEN SupersededReconstructAndDownloadFile(stored)
             ELSE stored

SupersededInit ==
    /\ rx = RxInit
    /\ sentFile = NoFile
    /\ inflight = {}
    /\ upstream = {}
    /\ net = IdleNet
    /\ codec = IdleCodec
    /\ tx = IdleTx
    /\ activeChannels = <<>>
    /\ handed = <<>>
    /\ server = IdleServer
    /\ repair = IdleRepair
    /\ progress = IdleProgress

\* channel.onmessage with a file-metadata message
SupersededMetadata ==
    /\ \E m \in MetadataInputs :
        rx' = SupersededHandleDataChannelMessage(rx, m)
    /\ net' = [net EXCEPT !.last = "metadata", !.earlyComplete = FALSE,
                          !.metadataDelivered = TRUE]
    /\ UNCHANGED <<server, repair, progress, sentFile, inflight, upstream, codec, tx,
                   activeChannels, handed>>

\* channel.onmessage with a file-complete message; earlyComplete: one has
\* come, since the last file-metadata, with the store short
SupersededComplete ==
    /\ rx' = SupersededHandleDataChannelMessage(rx, CompleteMsg)
    /\ net' = [net EXCEPT
                 !.last = "complete",
                 !.earlyComplete =
                     @ \/ MapSize(rx.receivedChunks) < rx.expectedChunks]
    /\ UNCHANGED <<server, repair, progress, sentFile, inflight, upstream, codec, tx,
                   activeChannels, handed>>

\* channel.onmessage with a packet
SupersededBinary ==
    /\ \E index \in 0..MaxIndex, chunkData \in Payloads :
        rx' = SupersededHandleDataChannelMessage(
                  rx, SupersededPacket(index, chunkData))
    /\ net' = [net EXCEPT !.last = "packet"]
    /\ UNCHANGED <<server, repair, progress, sentFile, inflight, upstream, codec, tx,
                   activeChannels, handed>>

SupersededNext == SupersededMetadata \/ SupersededComplete \/ SupersededBinary

SupersededSpec == SupersededInit /\ [][SupersededNext]_vars

(***************************************************************************)
(* SignalSpec: the signaling server (src/server/routes.ts) under any       *)
(* sequence of room creations, connections, join-room and disconnect       *)
(* events.  activeRooms and rooms are maps: functions on the keys present. *)
(* A socket id names one connection; joined keeps every (socket, room) of  *)
(* a join-room event.                                                      *)
(***************************************************************************)
MaxSockets == 3
MaxRooms == 2
SocketIds == 1..MaxSockets
RoomIds == 1..MaxRooms

\* Map.set on a map kept as a function
MapPut(map, key, value) ==
    [k \in DOMAIN map \cup {key} |-> IF k = key THEN value ELSE map[k]]

\* Map.delete
MapDelete(map, key) == [k \in DOMAIN map \ {key} |-> map[k]]

\* MemStorage.createRoom, part_002 lines 40-48
createRoom(rooms, id) == MapPut(rooms, id, [isActive |-> TRUE])

\* MemStorage.deactivateRoom, part_002 lines 54-60
deactivateRoom(rooms, id) ==
    IF id \in DOMAIN rooms THEN MapPut(rooms, id, [isActive |-> FALSE])
    ELSE rooms

\* the disconnect handler's loop body for one room, routes.ts lines 100-109
LeaveRoom(sv, socket, roomId) ==
    IF roomId \in DOMAIN sv.activeRooms /\ socket \in sv.activeRooms[roomId]
    THEN LET clients == sv.activeRooms[roomId] \ {socket}
         IN  IF clients = {}
             THEN [sv EXCEPT !.activeRooms = MapDelete(@, roomId),
                             !.rooms = deactivateRoom(@, roomId)]
             ELSE [sv EXCEPT !.activeRooms = MapPut(@, roomId, clients)]
    ELSE sv

RECURSIVE LeaveRooms(_, _, _)
\* for (const [roomId, clients] of activeRooms.entries()), lines 99-110
LeaveRooms(sv, socket, roomIds) ==
    IF roomIds = {} THEN sv
    ELSE LET roomId == CHOOSE r \in roomIds : TRUE
         IN  LeaveRooms(LeaveRoom(sv, socket, roomId), socket, roomIds \ {roomId})

SignalUnchanged ==
    UNCHANGED <<rx, sentFile, inflight, upstream, net, codec, tx, activeChannels,
                handed, progress, repair>>

SignalInit ==
    /\ rx = RxInit
    /\ sentFile = NoFile
    /\ inflight = {}
    /\ upstream = {}
    /\ net = IdleNet
    /\ codec = IdleCodec
    /\ tx = IdleTx
    /\ activeChannels = <<>>
    /\ handed = <<>>
    /\ server = IdleServer
    /\ repair = IdleRepair
    /\ progress = IdleProgress

\* POST /api/rooms, lines 24-34: a fresh id from nanoid
PostRoom ==
    /\ \E roomId \in RoomIds \ DOMAIN server.rooms :
        server' = [server EXCEPT !.rooms = createRoom(@, roomId),
                                 !.activeRooms = MapPut(@, roomId, {})]
    /\ SignalUnchanged

\* io.on("connection"), line 50: a socket with an id not used before
Connection ==
    /\ \E socket \in SocketIds \ (server.connected \cup server.gone) :
        server' = [server EXCEPT !.connected = @ \cup {socket}]
    /\ SignalUnchanged

\* socket.on("join-room"), lines 53-69: the room id is the client's
JoinRoom ==
    /\ \E socket \in server.connected, roomId \in RoomIds :
        LET present == IF roomId \in DOMAIN server.activeRooms
                       THEN server.activeRooms[roomId] ELSE {}
        IN  server' = [server EXCEPT
                         !.activeRooms = MapPut(@, roomId, present \cup {socket}),
                         !.joined = @ \cup {<<socket, roomId>>}]
    /\ SignalUnchanged

\* socket.on("disconnect"), lines 95-111
Disconnect ==
    /\ \E socket \in server.connected :
        server' = [LeaveRooms(server, socket, DOMAIN server.activeRooms) EXCEPT
                      !.connected = @ \ {socket},
                      !.gone = @ \cup {socket}]
    /\ SignalUnchanged

SignalNext == PostRoom \/ Connection \/ JoinRoom \/ Disconnect

SignalSpec == SignalInit /\ [][SignalNext]_vars

(***************************************************************************)
(* ProgressSpec: the calls of updateProgress a manager makes as a sender   *)
(* (lines 158-160, 177, 185) and as a receiver (lines 290, 351), under a   *)
(* clock of milliseconds.  A quotient is kept as numerator and             *)
(* denominator; Date.now() does not go back.                               *)
(***************************************************************************)
\* the clock's last value
MaxClock == 3
\* the most bytes a receiver holds
MaxReceived == 3

\* updateProgress, lines 245-256.  timeDiff = (now - lastProgressTime) /
\* 1000 || 1 is diff / 1000 with diff = 1000 for a difference of 0; speed =
\* bytesDiff / timeDiff; percentage = bytesTransferred / fileSize * 100;
\* timeRemaining = (fileSize - bytesTransferred) / speed when speed > 0
updateProgress(p, fileSize, bytesTransferred) ==
    LET now       == p.clock
        diff      == IF now - p.lastProgressTime = 0 THEN 1000
                     ELSE now - p.lastProgressTime
        bytesDiff == bytesTransferred - p.lastProgressBytes
        speed     == [num |-> bytesDiff * 1000, den |-> diff]
        positive  == speed.num * speed.den > 0
    IN  [p EXCEPT
           !.report = [called |-> TRUE,
                       divisorZero |-> (fileSize = 0),
                       speed |-> speed,
                       timeRemaining |->
                           IF positive
                           THEN [num |-> (fileSize - bytesTransferred) * speed.den,
                                 den |-> speed.num]
                           ELSE [num |-> 0, den |-> 1]],
           !.lastProgressTime = now,
           !.lastProgressBytes = bytesTransferred]

ProgressInit ==
    /\ rx = RxInit
    /\ sentFile = NoFile
    /\ inflight = {}
    /\ upstream = {}
    /\ net = IdleNet
    /\ codec = IdleCodec
    /\ tx = IdleTx
    /\ activeChannels = <<>>
    /\ handed = <<>>
    /\ server = IdleServer
    /\ repair = IdleRepair
    /\ progress = IdleProgress

ProgressUnchanged ==
    UNCHANGED <<server, repair, rx, sentFile, inflight, upstream, net, codec, tx,
                activeChannels, handed>>

\* time passes
Tick ==
    /\ progress.clock < MaxClock
    /\ progress' = [progress EXCEPT !.clock = @ + 1]
    /\ ProgressUnchanged

\* sendFile after the metadata, lines 158-160
SenderStart ==
    /\ \E size \in 0..MaxFileSize :
        progress' = [progress EXCEPT !.fileSize = size,
                                     !.lastProgressTime = progress.clock,
                                     !.lastProgressBytes = 0]
    /\ ProgressUnchanged

\* the chunk loop's updateProgress(file.name, file.size, end), line 177
SenderChunkProgress ==
    /\ \E end \in (progress.lastProgressBytes + 1)..progress.fileSize :
        progress' = updateProgress(progress, progress.fileSize, end)
    /\ ProgressUnchanged

\* updateProgress(file.name, file.size, file.size), line 185
SenderFinalProgress ==
    /\ progress' = updateProgress(progress, progress.fileSize, progress.fileSize)
    /\ ProgressUnchanged

\* the receiver's file-metadata: currentFileSize, line 266
ReceiverMetadata ==
    /\ \E size \in 0..MaxFileSize :
        progress' = [progress EXCEPT !.currentFileSize = size]
    /\ ProgressUnchanged

\* the receiver's updateProgress(currentFileName, currentFileSize,
\* bytesReceived), line 290: bytesReceived is the sum of the stored chunks'
\* lengths
ReceiverPacketProgress ==
    /\ \E bytesReceived \in 0..MaxReceived :
        progress' = updateProgress(progress, progress.currentFileSize,
                                   bytesReceived)
    /\ ProgressUnchanged

\* updateProgress(currentFileName, currentFileSize, currentFileSize), line 351
ReceiverFinalProgress ==
    /\ progress' = updateProgress(progress, progress.currentFileSize,
                                  progress.currentFileSize)
    /\ ProgressUnchanged

ProgressNext ==
    \/ Tick
    \/ SenderStart
    \/ SenderChunkProgress
    \/ SenderFinalProgress
    \/ ReceiverMetadata
    \/ ReceiverPacketProgress
    \/ ReceiverFinalProgress

ProgressSpec == ProgressInit /\ [][ProgressNext]_vars

(***************************************************************************)
(* ThrottleSpec: the progress reports of sendFile's chunk loop and of the  *)
(* packet branch of handleDataChannelMessage, each behind its test of      *)
(* Date.now() against the time of its last report, and the two reports     *)
(* made without a test.  The clock is in milliseconds and advances in      *)
(* steps around half the interval.                                         *)
(***************************************************************************)
\* the interval of lines 176 and 289
THROTTLE_MS == 100

\* Date.now() when the manager is constructed, and the time modelled
Epoch == 1000
MaxElapsed == 152
TickSteps == {50, 51}

\* no test: every iteration reports
ThrottleOpen(now, last) == TRUE

\* the tests of lines 176 and 289
Throttled(now, last) == now - last > THROTTLE_MS

NoSample == [path |-> "none", at |-> 0, previous |-> -1]

ThrottleInit ==
    /\ rx = RxInit
    /\ sentFile = NoFile
    /\ inflight = {}
    /\ upstream = {}
    /\ net = IdleNet
    /\ codec = IdleCodec
    /\ tx = IdleTx
    /\ activeChannels = <<>>
    /\ handed = <<>>
    /\ server = IdleServer
    /\ repair = IdleRepair
    /\ progress = [IdleProgress EXCEPT !.clock = Epoch,
                                       !.currentFileSize = MaxFileSize]

ThrottleTick ==
    /\ \E d \in TickSteps :
        /\ progress.clock + d <= Epoch + MaxElapsed
        /\ progress' = [progress EXCEPT !.clock = @ + d, !.sample = NoSample]
    /\ ProgressUnchanged

\* sendFile up to its chunk loop, lines 158-163
ThrottleSendFile ==
    /\ ~progress.sending
    /\ \E size \in {0, MaxFileSize} :
        progress' = [progress EXCEPT !.sending = TRUE,
                                     !.fileSize = size,
                                     !.sent = 0,
                                     !.lastProgressTime = progress.clock,
                                     !.lastProgressBytes = 0,
                                     !.lastProgressUpdateTime = 0,
                                     !.senderPrev = -1,
                                     !.sample = NoSample]
    /\ ProgressUnchanged

\* one iteration of the chunk loop, lines 165-179
ThrottleChunk ==
    /\ progress.sending
    /\ progress.sent < progress.fileSize
    /\ LET end == Min(progress.sent + ChunkSize, progress.fileSize)
           now == progress.clock
       IN  progress' =
             IF Throttled(now, progress.lastProgressUpdateTime)
             THEN [updateProgress(progress, progress.fileSize, end) EXCEPT
                      !.lastProgressUpdateTime = now,
                      !.sent = end,
                      !.sample = [path |-> "sender", at |-> now,
                                  previous |-> progress.senderPrev],
                      !.senderPrev = now]
             ELSE [progress EXCEPT !.sent = end, !.sample = NoSample]
    /\ ProgressUnchanged

\* the report after the loop, line 185
ThrottleFinal ==
    /\ progress.sending
    /\ progress.sent = progress.fileSize
    /\ progress' =
          [updateProgress(progress, progress.fileSize, progress.fileSize) EXCEPT
              !.sending = FALSE,
              !.sample = [path |-> "senderFinal", at |-> progress.clock,
                          previous |-> progress.senderPrev]]
    /\ ProgressUnchanged

\* a packet accepted by the receiver, lines 286-292
ThrottlePacket ==
    /\ LET now == progress.clock
       IN  progress' =
             IF Throttled(now, progress.lastReceiverProgressUpdateTime)
             THEN [updateProgress(progress, progress.currentFileSize, ChunkSize)
                   EXCEPT
                      !.lastReceiverProgressUpdateTime = now,
                      !.sample = [path |-> "receiver", at |-> now,
                                  previous |-> progress.receiverPrev],
                      !.receiverPrev = now]
             ELSE [progress EXCEPT !.sample = NoSample]
    /\ ProgressUnchanged

\* the report at delivery, line 351
ThrottleDelivery ==
    /\ progress' =
          [updateProgress(progress, progress.currentFileSize,
                          progress.currentFileSize) EXCEPT
              !.sample = [path |-> "receiverFinal", at |-> progress.clock,
                          previous |-> progress.receiverPrev]]
    /\ ProgressUnchanged

ThrottleNext ==
    \/ ThrottleTick
    \/ ThrottleSendFile
    \/ ThrottleChunk
    \/ ThrottleFinal
    \/ ThrottlePacket
    \/ ThrottleDelivery

ThrottleSpec == ThrottleInit /\ [][ThrottleNext]_vars

(***************************************************************************)
(* TransferSpec: one blob from sendFile to the receiver.  The chunk        *)
(* packets of the initial send are in flight; the network delivers them in *)
(* any order and may lose any of them; file-metadata arrives first (it is  *)
(* the first message on channel 0) and file-complete once, at any time     *)
(* after it.  The receiver's channel 0 is open when it hands a repair      *)
(* request to it, and the sender's channel 0 is open and under its         *)
(* threshold when the request is served.                                   *)
(***************************************************************************)
Seeds == {1, 77}

\* the blob of the given length whose p-th byte is (seed * p) mod 256
FileBytes(length, seed) == [p \in 1..length |-> (seed * p) % 256]

Files == {FileBytes(length, seed) : length \in 0..MaxFileSize, seed \in Seeds}

\* the metadata of lines 146-154
FileMetadata(file) ==
    MetadataMsg("a.bin", Len(file), "application/octet-stream", TotalChunks(file))

\* the packet of chunk i, lines 167-171 (and 314-317 in resendChunks)
ChunkPacket(file, i) == BinaryMsg(createPacket(i, FileSlice(file, i)))

\* the packets the chunk loop hands to the channels, lines 164-182
InitialPackets(file) ==
    {ChunkPacket(file, i) : i \in 0..(TotalChunks(file) - 1)}

\* resendChunks: one packet per requested index, through the same
\* createPacket, all on channel 0
resendChunks(file, indices) ==
    IF file = NoFile THEN <<>>
    ELSE [k \in 1..Len(indices) |-> ChunkPacket(file, indices[k])]

SeqRange(seq) == {seq[k] : k \in 1..Len(seq)}

\* the index a packet carries on the wire
WireIndex(m) == GetUint16LE(m.bytes)

TransferInit ==
    /\ rx = RxInit
    /\ sentFile \in Files
    /\ inflight = InitialPackets(sentFile)
    /\ upstream = {}
    /\ net = IdleNet
    /\ codec = IdleCodec
    /\ tx = IdleTx
    /\ activeChannels = <<>>
    /\ handed = <<>>
    /\ server = IdleServer
    /\ repair = IdleRepair
    /\ progress = IdleProgress

\* the receiver's channel.onmessage with the sender's file-metadata
TDeliverMetadata ==
    /\ ~net.metadataDelivered
    /\ rx' = handleDataChannelMessage(rx, FileMetadata(sentFile))
    /\ net' = [net EXCEPT !.metadataDelivered = TRUE]
    /\ UNCHANGED <<server, repair, progress, sentFile, inflight, upstream, codec, tx, activeChannels, handed>>

\* the receiver's channel.onmessage with a chunk packet
TDeliverPacket ==
    /\ net.metadataDelivered
    /\ \E m \in inflight :
        /\ rx' = handleDataChannelMessage(rx, m)
        /\ inflight' = inflight \ {m}
        /\ net' = [net EXCEPT !.arrived = @ \cup {WireIndex(m)},
                              !.lastArrived = WireIndex(m),
                              !.outOfOrder = @ \/ WireIndex(m) < net.lastArrived]
    /\ UNCHANGED <<server, repair, progress, sentFile, upstream, codec, tx, activeChannels, handed>>

\* the transport loses a chunk packet; one lost before file-complete has
\* arrived is withheld from the initial delivery
TLosePacket ==
    /\ net.metadataDelivered
    /\ \E m \in inflight :
        /\ inflight' = inflight \ {m}
        /\ net' = IF net.completeDelivered THEN net
                  ELSE [net EXCEPT !.withheld = @ \cup {WireIndex(m)}]
    /\ UNCHANGED <<server, repair, progress, rx, sentFile, upstream, codec, tx, activeChannels, handed>>

\* the receiver's channel.onmessage with file-complete; a repair request it
\* hands to its channel 0 travels to the sender
TDeliverComplete ==
    /\ net.metadataDelivered
    /\ ~net.completeDelivered
    /\ rx' = handleDataChannelMessage(rx, CompleteMsg)
    /\ upstream' = IF rx'.requests > rx.requests
                   THEN upstream \cup {rx'.requestedIndices}
                   ELSE upstream
    /\ net' = [net EXCEPT !.completeDelivered = TRUE,
                          !.earlyComplete = (inflight # {})]
    /\ UNCHANGED <<server, repair, progress, sentFile, inflight, codec, tx, activeChannels, handed>>

\* the sender's channel.onmessage with request-missing-chunks
TResendChunks ==
    /\ \E indices \in upstream :
        /\ upstream' = upstream \ {indices}
        /\ inflight' = inflight \cup SeqRange(resendChunks(sentFile, indices))
    /\ net' = [net EXCEPT !.resends = @ + 1]
    /\ UNCHANGED <<server, repair, progress, rx, sentFile, codec, tx, activeChannels, handed>>

TransferNext ==
    \/ TDeliverMetadata
    \/ TDeliverPacket
    \/ TLosePacket
    \/ TDeliverComplete
    \/ TResendChunks

TransferSpec == TransferInit /\ [][TransferNext]_vars

\* TransferSpec under the scheduling the platform gives: a message on its
\* way arrives or is lost, a message that has arrived is handled.  Nothing
\* else is scheduled: the managers set no timer.
FairTransferSpec ==
    /\ TransferSpec
    /\ WF_vars(TDeliverMetadata)
    /\ WF_vars(TDeliverPacket \/ TLosePacket)
    /\ WF_vars(TDeliverComplete)
    /\ WF_vars(TResendChunks)

(***************************************************************************)
(* CodecSpec: one chunk of a blob through createPacket and the receiver's  *)
(* ArrayBuffer branch.  The chunk indices include those around 2^16, the   *)
(* width of the header's index field.                                      *)
(***************************************************************************)
CodecIndices == {0, 1, 255, 256, 65535, 65536, 65537}

CodecPayloads == {<<>>, <<1>>, <<255>>, <<1, 2>>, <<7, 7>>}

CodecInit ==
    /\ rx = RxInit
    /\ sentFile = NoFile
    /\ inflight = {}
    /\ upstream = {}
    /\ net = IdleNet
    /\ codec \in {[stage |-> "chunk", index |-> i, data |-> d, packet |-> <<>>,
                    flipped |-> FALSE] :
                    i \in CodecIndices, d \in CodecPayloads}
    /\ tx = IdleTx
    /\ activeChannels = <<>>
    /\ handed = <<>>
    /\ server = IdleServer
    /\ repair = IdleRepair
    /\ progress = IdleProgress

\* the receiver learns of a blob that has the chunk: totalChunks = index + 1
CodecMetadata ==
    /\ codec.stage = "chunk"
    /\ rx' = handleDataChannelMessage(rx,
                MetadataMsg("a.bin", (codec.index + 1) * ChunkSize,
                            "application/octet-stream", codec.index + 1))
    /\ codec' = [codec EXCEPT !.stage = "declared"]
    /\ UNCHANGED <<server, repair, progress, sentFile, inflight, upstream, net, tx, activeChannels, handed>>

\* sendFile's createPacket(i, chunkData), line 171
CodecEncode ==
    /\ codec.stage = "declared"
    /\ codec' = [codec EXCEPT !.stage = "packet",
                              !.packet = createPacket(codec.index, codec.data)]
    /\ UNCHANGED <<server, repair, progress, rx, sentFile, inflight, upstream, net, tx, activeChannels, handed>>

\* the byte with one of its 8 bits inverted
FlipBit(byte, bit) == Xor(byte, 2 ^ bit)

\* one bit of the packet's payload is inverted on the way
CodecCorrupt ==
    /\ codec.stage = "packet"
    /\ ~codec.flipped
    /\ \E pos \in 1..Len(codec.data), bit \in 0..7 :
        codec' = [codec EXCEPT
                    !.packet[3 + pos] = FlipBit(@, bit),
                    !.flipped = TRUE]
    /\ UNCHANGED <<server, repair, progress, rx, sentFile, inflight, upstream, net, tx, activeChannels, handed>>

\* the receiver's channel.onmessage with that packet
CodecReceive ==
    /\ codec.stage = "packet"
    /\ rx' = handleDataChannelMessage(rx, BinaryMsg(codec.packet))
    /\ codec' = [codec EXCEPT !.stage = "received"]
    /\ UNCHANGED <<server, repair, progress, sentFile, inflight, upstream, net, tx, activeChannels, handed>>

CodecNext == CodecMetadata \/ CodecEncode \/ CodecCorrupt \/ CodecReceive

CodecSpec == CodecInit /\ [][CodecNext]_vars

(***************************************************************************)
(* SendSpec: one sendFile over the channel set made by createDataChannels. *)
(* A step is what runs between two waits of the event loop: the call, a    *)
(* channel's open event, the arrival of a chunk's arrayBuffer, a           *)
(* bufferedamountlow event, a tick of the drain timer.  The transport      *)
(* opens and closes channels and transmits buffered bytes in between.      *)
(* bufferedAmount is in bytes; a text message counts ControlSize bytes.    *)
(***************************************************************************)
Channels == 0..(NumChannels - 1)

\* the bytes send() adds to bufferedAmount
ControlSize == 1
MsgSize(data) == IF data.kind = "string" THEN ControlSize ELSE Len(data.bytes)

\* a channel after createDataChannel and setupDataChannel, lines 77-90;
\* lowEvent: a bufferedamountlow event is queued and not yet dispatched
NewChannel ==
    [readyState |-> "connecting", bufferedAmount |-> 0,
     bufferedAmountLowThreshold |-> LowThreshold,
     onopen |-> "log", onbufferedamountlow |-> "null", lowEvent |-> FALSE]

SendFiles == {FileBytes(length, 1) : length \in 0..MaxFileSize}

\* the sending manager: sendFile's position and locals, the channel set,
\* the channel.send calls made, the blob
Sender == [tx |-> tx, ch |-> activeChannels, out |-> handed, file |-> sentFile]

\* no wait at all
NeverOverThreshold(chan) == FALSE

\* the loop condition of line 224
OverThreshold(chan) == chan.bufferedAmount > chan.bufferedAmountLowThreshold

\* every channel taken for open
NeverNotOpen(chan) == FALSE

\* the readiness check of line 233
NotOpen(chan) == chan.readyState # "open"

\* sendWithBackpressure up to its first wait: suspended with the handler
\* of lines 226-229 installed, or the send skipped on a channel that is not
\* open, or the data handed to channel.send
sendWithBackpressure(s, c, data, what) ==
    IF OverThreshold(s.ch[c])
    THEN [s EXCEPT !.tx.pc = "suspended", !.tx.channel = c, !.tx.data = data,
                   !.tx.sending = what,
                   !.ch[c].onbufferedamountlow = "resolve"]
    ELSE IF NotOpen(s.ch[c]) THEN s
    ELSE [s EXCEPT !.ch[c].bufferedAmount = @ + MsgSize(data),
                   !.out = Append(@, [channel |-> c, data |-> data])]

Suspended(s) == s.tx.pc = "suspended"

\* only the control channel is looked at
DrainedControlOnly(s) == s.ch[0].bufferedAmount = 0

\* the drain check of line 191
Drained(s) == \A c \in Channels : s.ch[c].bufferedAmount = 0

\* file-complete on the channel the chunk loop stopped at
SendCompleteOnChunkChannel(s) ==
    LET s1 == sendWithBackpressure(s, s.tx.channelIndex, CompleteMsg, "complete")
    IN  IF Suspended(s1) THEN s1 ELSE [s1 EXCEPT !.tx.pc = "done"]

\* line 202 and the return
SendComplete(s) ==
    LET s1 == sendWithBackpressure(s, 0, CompleteMsg, "complete")
    IN  IF Suspended(s1) THEN s1 ELSE [s1 EXCEPT !.tx.pc = "done"]

\* check() of lines 190-196, then line 202
DrainCheck(s) ==
    IF Drained(s) THEN SendComplete(s) ELSE [s EXCEPT !.tx.pc = "draining"]

\* the loop test of line 164: the next chunk's arrayBuffer is awaited, or
\* the loop is left for waitForDraining
LoopHead(s) ==
    IF s.tx.i < s.tx.totalChunks THEN [s EXCEPT !.tx.pc = "chunks"]
    ELSE DrainCheck(s)

\* the channel never advanced
AfterChunkSameChannel(s) == LoopHead([s EXCEPT !.tx.i = @ + 1])

\* line 181 and i++
AfterChunk(s) ==
    LoopHead([s EXCEPT !.tx.channelIndex = (@ + 1) % NumChannels,
                       !.tx.i = @ + 1])

\* lines 162-164
AfterMetadata(s) ==
    LoopHead([s EXCEPT !.tx.channelIndex = 0, !.tx.i = 0])

\* the for-of step of line 313: the next index's arrayBuffer is awaited,
\* or resendChunks returns
AfterResend(s) ==
    IF s.tx.k < Len(s.tx.indices)
    THEN [s EXCEPT !.tx.pc = "resend", !.tx.k = @ + 1]
    ELSE [s EXCEPT !.tx.pc = "done", !.tx.k = @ + 1]

\* what follows the sendWithBackpressure call that has returned
AfterSend(s, what) ==
    IF what = "metadata" THEN AfterMetadata(s)
    ELSE IF what = "chunk" THEN AfterChunk(s)
    ELSE IF what = "resend" THEN AfterResend(s)
    ELSE [s EXCEPT !.tx.pc = "done"]

\* lines 142-156, run when Promise.all has resolved
AfterChannelsOpen(s) ==
    IF \A c \in Channels : s.ch[c].readyState # "open"
    THEN [s EXCEPT !.tx.pc = "failed"]
    ELSE LET s0 == [s EXCEPT !.tx.totalChunks = TotalChunks(s.file)]
             s1 == sendWithBackpressure(s0, 0, FileMetadata(s.file), "metadata")
         IN  IF Suspended(s1) THEN s1 ELSE AfterMetadata(s1)

\* lines 167-173, run when the chunk's arrayBuffer has arrived
ChunkReady(s) ==
    LET packet == ChunkPacket(s.file, s.tx.i)
        s0 == [s EXCEPT !.tx.passed =
                  Append(@, [channel |-> s.tx.channelIndex, data |-> packet])]
        s1 == sendWithBackpressure(s0, s.tx.channelIndex, packet, "chunk")
    IN  IF Suspended(s1) THEN s1 ELSE AfterChunk(s1)

\* resendChunks(indices) up to its first wait, lines 306-316
StartResend(s, indices) ==
    IF s.file = NoFile \/ indices = <<>> THEN s
    ELSE [s EXCEPT !.tx.pc = "resend", !.tx.indices = indices, !.tx.k = 1]

\* nothing resent
ResendSkipped(s) == AfterResend(s)

\* the packet framed for the loop's position instead of the index asked for
ResendReadyByPosition(s) ==
    LET packet == ChunkPacket(s.file, s.tx.k - 1)
        s0 == [s EXCEPT !.tx.resent =
                  Append(@, [index |-> s.tx.indices[s.tx.k], channel |-> 0,
                             data |-> packet])]
        s1 == sendWithBackpressure(s0, 0, packet, "resend")
    IN  IF Suspended(s1) THEN s1 ELSE AfterResend(s1)

\* lines 314-319, run when the requested chunk's arrayBuffer has arrived
ResendReady(s) ==
    LET index == s.tx.indices[s.tx.k]
        packet == ChunkPacket(s.file, index)
        s0 == [s EXCEPT !.tx.resent =
                  Append(@, [index |-> index, channel |-> 0, data |-> packet])]
        s1 == sendWithBackpressure(s0, 0, packet, "resend")
    IN  IF Suspended(s1) THEN s1 ELSE AfterResend(s1)

\* the handler of lines 226-229 has resolved: the loop of line 224 tests
\* again, and sendWithBackpressure goes on
Resumed(s) ==
    LET s0 == [s EXCEPT !.tx.pc = "running", !.tx.channel = 0,
                        !.tx.data = CompleteMsg, !.tx.sending = "none",
                        !.tx.resumes = @ + 1]
        s1 == sendWithBackpressure(s0, s.tx.channel, s.tx.data, s.tx.sending)
    IN  IF Suspended(s1) THEN s1 ELSE AfterSend(s1, s.tx.sending)

SetSender(s) ==
    /\ tx' = s.tx
    /\ activeChannels' = s.ch
    /\ handed' = s.out
    /\ sentFile' = s.file

SendInit ==
    /\ rx = RxInit
    /\ sentFile = NoFile
    /\ inflight = {}
    /\ upstream = {}
    /\ net = IdleNet
    /\ codec = IdleCodec
    /\ tx = IdleTx
    /\ activeChannels = [c \in Channels |-> NewChannel]
    /\ handed = <<>>
    /\ server = IdleServer
    /\ repair = IdleRepair
    /\ progress = IdleProgress

\* sendFile(file), lines 135-140: every channel that is not open gets the
\* onopen handler that resolves its promise; with all of them open the
\* call goes on at once
SendFile ==
    /\ tx.pc = "idle"
    /\ \E file \in SendFiles :
        LET waiting == {c \in Channels : activeChannels[c].readyState # "open"}
            s0 == [Sender EXCEPT
                     !.file = file,
                     !.tx.pc = "awaitOpen",
                     !.tx.waiting = waiting,
                     !.ch = [c \in Channels |->
                               IF c \in waiting
                               THEN [@[c] EXCEPT !.onopen = "resolve"]
                               ELSE @[c]]]
        IN  SetSender(IF waiting = {} THEN AfterChannelsOpen(s0) ELSE s0)
    /\ UNCHANGED <<server, repair, progress, rx, inflight, upstream, net, codec>>

\* the transport opens a channel and its onopen handler runs; the last
\* promise resolved lets sendFile go on
ChannelOpen ==
    /\ \E c \in Channels :
        /\ activeChannels[c].readyState = "connecting"
        /\ LET s0 == [Sender EXCEPT !.ch[c].readyState = "open"]
               s1 == IF s0.ch[c].onopen = "resolve"
                     THEN [s0 EXCEPT !.tx.waiting = @ \ {c}]
                     ELSE s0
           IN  SetSender(IF tx.pc = "awaitOpen" /\ tx.waiting # {}
                             /\ s1.tx.waiting = {}
                         THEN AfterChannelsOpen(s1) ELSE s1)
    /\ UNCHANGED <<server, repair, progress, rx, inflight, upstream, net, codec>>

\* the transport closes a channel
ChannelClose ==
    /\ \E c \in Channels :
        /\ activeChannels[c].readyState # "closed"
        /\ activeChannels' = [activeChannels EXCEPT ![c].readyState = "closed"]
    /\ UNCHANGED <<server, repair, progress, rx, sentFile, inflight, upstream, net, codec, tx, handed>>

\* the transport transmits buffered bytes of an open channel; a
\* bufferedamountlow event is queued when bufferedAmount falls from above
\* the threshold to it or below
Transmit ==
    /\ \E c \in Channels :
        /\ activeChannels[c].readyState = "open"
        /\ \E left \in 0..(activeChannels[c].bufferedAmount - 1) :
            activeChannels' = [activeChannels EXCEPT
                ![c].bufferedAmount = left,
                ![c].lowEvent = @ \/ (OverThreshold(activeChannels[c])
                    /\ left <= activeChannels[c].bufferedAmountLowThreshold)]
    /\ UNCHANGED <<server, repair, progress, rx, sentFile, inflight, upstream, net, codec, tx, handed>>

\* the queued bufferedamountlow event is dispatched to the channel's handler
BufferedAmountLow ==
    /\ \E c \in Channels :
        /\ activeChannels[c].lowEvent
        /\ LET s0 == [Sender EXCEPT !.ch[c].lowEvent = FALSE]
           IN  SetSender(IF s0.ch[c].onbufferedamountlow = "resolve"
                         THEN Resumed([s0 EXCEPT
                                  !.ch[c].onbufferedamountlow = "null"])
                         ELSE s0)
    /\ UNCHANGED <<server, repair, progress, rx, inflight, upstream, net, codec>>

\* a chunk's file.slice(start, end).arrayBuffer() has arrived
ChunkArrayBuffer ==
    /\ tx.pc = "chunks"
    /\ SetSender(ChunkReady(Sender))
    /\ UNCHANGED <<server, repair, progress, rx, inflight, upstream, net, codec>>

\* setTimeout(check, 100) of waitForDraining fires
DrainTimer ==
    /\ tx.pc = "draining"
    /\ SetSender(DrainCheck(Sender))
    /\ UNCHANGED <<server, repair, progress, rx, inflight, upstream, net, codec>>

SendNext ==
    \/ SendFile
    \/ ChannelOpen
    \/ ChannelClose
    \/ Transmit
    \/ BufferedAmountLow
    \/ ChunkArrayBuffer
    \/ DrainTimer

SendSpec == SendInit /\ [][SendNext]_vars

\* SendSpec with the scheduling the platform gives: the transport goes on
\* transmitting the buffered bytes of an open channel, the event loop
\* dispatches a queued event, a pending arrayBuffer arrives and a set timer
\* fires.  Nothing makes a channel open or close, or sendFile be called.
FairSendSpec ==
    /\ SendSpec
    /\ WF_vars(Transmit)
    /\ WF_vars(BufferedAmountLow)
    /\ WF_vars(ChunkArrayBuffer)
    /\ WF_vars(DrainTimer)

(***************************************************************************)
(* ChannelSpec: one sendFile to a receiving manager over open channels     *)
(* that lose nothing.  Each channel carries its messages in the order they *)
(* were handed to it; messages of different channels reach the receiver in *)
(* any order.  A repair request of the receiver travels back to the        *)
(* sender, whose resendChunks serves it.  file-complete is sendFile's last *)
(* send, so a request finds no sendFile in progress.                       *)
(***************************************************************************)
\* the messages handed to channel c, in order
ChannelLog(out, c) == SelectSeq(out, LAMBDA e : e.channel = c)

\* the send of lines 338-341, on the receiving manager's channel set
RequestSend(r) == [channel |-> 0, data |-> RequestMsg(r.requestedIndices)]

IsType(data, type) == data.kind = "string" /\ data.json.type = type

ChannelInit ==
    /\ rx = RxInit
    /\ sentFile = NoFile
    /\ inflight = {}
    /\ upstream = {}
    /\ net = [IdleNet EXCEPT !.sent = [c \in Channels |-> 0],
                             !.recv = [c \in Channels |-> 0]]
    /\ codec = IdleCodec
    /\ tx = IdleTx
    /\ activeChannels = [c \in Channels |-> [NewChannel EXCEPT !.readyState = "open"]]
    /\ handed = <<>>
    /\ server = IdleServer
    /\ repair = IdleRepair
    /\ progress = IdleProgress

\* the transport transmits the oldest buffered message of a channel
WireTransmit ==
    /\ \E c \in Channels :
        LET log == ChannelLog(handed, c)
        IN  /\ net.sent[c] < Len(log)
            /\ LET left == activeChannels[c].bufferedAmount
                              - MsgSize(log[net.sent[c] + 1].data)
               IN  activeChannels' = [activeChannels EXCEPT
                      ![c].bufferedAmount = left,
                      ![c].lowEvent = @ \/ (OverThreshold(activeChannels[c])
                          /\ left <= activeChannels[c].bufferedAmountLowThreshold)]
            /\ net' = [net EXCEPT !.sent[c] = @ + 1]
    /\ UNCHANGED <<server, repair, progress, rx, sentFile, inflight, upstream, codec, tx, handed>>

\* the receiving manager's channel.onmessage with the oldest transmitted
\* message of a channel; a repair request it sends travels to the sender
WireDeliver ==
    /\ \E c \in Channels :
        /\ net.recv[c] < net.sent[c]
        /\ LET data == ChannelLog(handed, c)[net.recv[c] + 1].data
           IN  /\ rx' = handleDataChannelMessage(rx, data)
               /\ net' = [net EXCEPT
                     !.recv[c] = @ + 1,
                     !.metadataDelivered = @ \/ IsType(data, "file-metadata"),
                     !.completeDelivered = @ \/ IsType(data, "file-complete"),
                     !.overtaken = @ \/ (data.kind = "binary"
                                          /\ ~net.metadataDelivered),
                     !.arrived = IF IsType(data, "file-metadata") THEN {}
                                 ELSE IF data.kind = "binary"
                                         /\ HeaderMatches(data.bytes)
                                 THEN @ \cup {GetUint16LE(data.bytes)}
                                 ELSE @]
        /\ upstream' = IF rx'.requests > rx.requests
                       THEN upstream \cup {RequestSend(rx')}
                       ELSE upstream
    /\ UNCHANGED <<server, repair, progress, sentFile, inflight, codec, tx, activeChannels, handed>>

\* the sending manager's channel.onmessage with request-missing-chunks
\* (lines 273-274): resendChunks runs to its first wait
RequestArrives ==
    /\ tx.pc = "done"
    /\ \E q \in upstream :
        /\ upstream' = upstream \ {q}
        /\ SetSender(StartResend(Sender, q.data.json.indices))
    /\ net' = [net EXCEPT !.resends = @ + 1]
    /\ UNCHANGED <<server, repair, progress, rx, inflight, codec>>

\* a requested chunk's sentFile.slice(start, end).arrayBuffer() has arrived
ResendArrayBuffer ==
    /\ tx.pc = "resend"
    /\ SetSender(ResendReady(Sender))
    /\ UNCHANGED <<server, repair, progress, rx, inflight, upstream, net, codec>>

ChannelNext ==
    \/ SendFile
    \/ ChunkArrayBuffer
    \/ BufferedAmountLow
    \/ DrainTimer
    \/ WireTransmit
    \/ WireDeliver
    \/ RequestArrives
    \/ ResendArrayBuffer

ChannelSpec == ChannelInit /\ [][ChannelNext]_vars

(***************************************************************************)
(* IsolationSpec: two sendFile calls on one manager, one after the other,  *)
(* over open channels whose buffers never pass the threshold: every        *)
(* message of both transfers has been handed to its channel, and the       *)
(* transport delivers each channel's messages in order, the channels in    *)
(* any interleaving.  A repair request is answered by resendChunks from    *)
(* sentFile, which is the blob of the second call.                         *)
(***************************************************************************)
\* what one sendFile hands to the channels with every channel open: the
\* metadata on channel 0, chunk i on channel i mod activeChannels.length,
\* file-complete on channel 0
SendLog(file) ==
    <<[channel |-> 0, data |-> FileMetadata(file)]>>
    \o [n \in 1..TotalChunks(file) |->
          [channel |-> (n - 1) % NumChannels, data |-> ChunkPacket(file, n - 1)]]
    \o <<[channel |-> 0, data |-> CompleteMsg]>>

\* the blobs of the first and of the second call
FirstFiles == {FileBytes(length, 1) : length \in 1..MaxFileSize}
SecondFiles == {FileBytes(length, 77) : length \in 1..MaxFileSize}

IsolationInit ==
    /\ rx = RxInit
    /\ \E first \in FirstFiles, second \in SecondFiles :
        /\ sentFile = second
        /\ handed = SendLog(first) \o SendLog(second)
    /\ inflight = {}
    /\ upstream = {}
    /\ net = [IdleNet EXCEPT !.sent = [c \in Channels |-> 0],
                             !.recv = [c \in Channels |-> 0]]
    /\ codec = IdleCodec
    /\ tx = [IdleTx EXCEPT !.pc = "done"]
    /\ activeChannels = [c \in Channels |-> [NewChannel EXCEPT !.readyState = "open"]]
    /\ server = IdleServer
    /\ repair = IdleRepair
    /\ progress = IdleProgress

\* the receiving manager's channel.onmessage with the oldest undelivered
\* message of a channel; a repair request it sends travels to the sender
IsoDeliver ==
    /\ \E c \in Channels :
        /\ net.recv[c] < Len(ChannelLog(handed, c))
        /\ LET data == ChannelLog(handed, c)[net.recv[c] + 1].data
           IN  /\ rx' = handleDataChannelMessage(rx, data)
               /\ net' = [net EXCEPT !.recv[c] = @ + 1]
        /\ upstream' = IF rx'.requests > rx.requests
                       THEN upstream \cup {RequestSend(rx')}
                       ELSE upstream
    /\ UNCHANGED <<server, repair, progress, sentFile, inflight, codec, tx, activeChannels, handed>>

\* the sending manager's channel.onmessage with request-missing-chunks:
\* resendChunks hands a packet of sentFile per index to channel 0
IsoResend ==
    /\ \E q \in upstream :
        /\ upstream' = upstream \ {q}
        /\ handed' = handed \o
              [k \in 1..Len(q.data.json.indices) |->
                 [channel |-> 0,
                  data |-> resendChunks(sentFile, q.data.json.indices)[k]]]
    /\ UNCHANGED <<server, repair, progress, rx, sentFile, inflight, net, codec, tx, activeChannels>>

IsolationNext == IsoDeliver \/ IsoResend

IsolationSpec == IsolationInit /\ [][IsolationNext]_vars

(***************************************************************************)
(* WakeSpec: a sendFile call and a resendChunks call on one manager at the *)
(* same time.  An earlier transfer has ended and its receiver's repair     *)
(* request is on its way when sendFile is called for the next blob; the    *)
(* channels are open and stay open.  Each caller suspended in              *)
(* sendWithBackpressure has assigned channel.onbufferedamountlow a closure *)
(* that resolves its own promise: the channel holds one handler, the last  *)
(* one assigned.                                                           *)
(***************************************************************************)
Callers == {"sendFile", "resendChunks"}

\* blobs of one and of two full chunks
WakeFiles == {FileBytes(n * ChunkSize, 1) : n \in 1..2}

\* the requests of the earlier transfer's receiver
WakeRequests == {RequestMsg(<<0>>), RequestMsg(<<0, 1>>)}

\* the manager as a caller's code sees it
View(who) ==
    [tx |-> IF who = "sendFile" THEN tx ELSE repair.tx,
     ch |-> activeChannels, out |-> handed, file |-> sentFile]

\* the state a caller's step leaves: a caller left suspended on a channel
\* has just assigned its closure to that channel's onbufferedamountlow
SetCaller(who, s) ==
    /\ tx' = IF who = "sendFile" THEN s.tx ELSE tx
    /\ repair' =
          [tx |-> IF who = "sendFile" THEN repair.tx ELSE s.tx,
           owner |-> [c \in Channels |->
                        IF Suspended(s) /\ s.tx.channel = c THEN who
                        ELSE IF s.ch[c].onbufferedamountlow = "null" THEN "none"
                        ELSE repair.owner[c]]]
    /\ activeChannels' = s.ch
    /\ handed' = s.out
    /\ sentFile' = s.file

WakeInit ==
    /\ rx = RxInit
    /\ sentFile \in WakeFiles
    /\ inflight = {}
    /\ upstream \in {{q} : q \in WakeRequests}
    /\ net = IdleNet
    /\ codec = IdleCodec
    /\ tx = IdleTx
    /\ activeChannels = [c \in Channels |-> [NewChannel EXCEPT !.readyState = "open"]]
    /\ handed = <<>>
    /\ server = IdleServer
    /\ repair = IdleRepair
    /\ progress = IdleProgress

\* sendFile(file) with every channel open, lines 135-156
WakeSendFile ==
    /\ tx.pc = "idle"
    /\ \E file \in WakeFiles :
        SetCaller("sendFile",
                  AfterChannelsOpen([View("sendFile") EXCEPT
                                        !.file = file,
                                        !.tx.pc = "awaitOpen"]))
    /\ UNCHANGED <<server, progress, rx, inflight, upstream, net, codec>>

\* a chunk's file.slice(start, end).arrayBuffer() has arrived
WakeChunkArrayBuffer ==
    /\ tx.pc = "chunks"
    /\ SetCaller("sendFile", ChunkReady(View("sendFile")))
    /\ UNCHANGED <<server, progress, rx, inflight, upstream, net, codec>>

\* setTimeout(check, 100) of waitForDraining fires
WakeDrainTimer ==
    /\ tx.pc = "draining"
    /\ SetCaller("sendFile", DrainCheck(View("sendFile")))
    /\ UNCHANGED <<server, progress, rx, inflight, upstream, net, codec>>

\* channel.onmessage with request-missing-chunks (lines 273-274):
\* resendChunks runs to its first wait
WakeRequestArrives ==
    /\ \E q \in upstream :
        /\ upstream' = upstream \ {q}
        /\ SetCaller("resendChunks",
                     StartResend(View("resendChunks"), q.json.indices))
    /\ UNCHANGED <<server, progress, rx, inflight, net, codec>>

\* a requested chunk's sentFile.slice(start, end).arrayBuffer() has arrived
WakeResendArrayBuffer ==
    /\ repair.tx.pc = "resend"
    /\ SetCaller("resendChunks", ResendReady(View("resendChunks")))
    /\ UNCHANGED <<server, progress, rx, inflight, upstream, net, codec>>

\* the transport transmits buffered bytes of a channel
WakeTransmit ==
    /\ \E c \in Channels :
        \E left \in 0..(activeChannels[c].bufferedAmount - 1) :
            activeChannels' = [activeChannels EXCEPT
                ![c].bufferedAmount = left,
                ![c].lowEvent = @ \/ (OverThreshold(activeChannels[c])
                    /\ left <= activeChannels[c].bufferedAmountLowThreshold)]
    /\ UNCHANGED <<server, progress, repair, rx, sentFile, inflight, upstream, net, codec,
                   tx, handed>>

\* the queued bufferedamountlow event is dispatched: the channel's handler
\* (lines 226-229) sets onbufferedamountlow to null and resolves the
\* promise of the caller that assigned it
WakeBufferedAmountLow ==
    /\ \E c \in Channels :
        /\ activeChannels[c].lowEvent
        /\ IF activeChannels[c].onbufferedamountlow = "resolve"
           THEN SetCaller(repair.owner[c],
                          Resumed([View(repair.owner[c]) EXCEPT
                                      !.ch[c].lowEvent = FALSE,
                                      !.ch[c].onbufferedamountlow = "null"]))
           ELSE /\ activeChannels' = [activeChannels EXCEPT ![c].lowEvent = FALSE]
                /\ UNCHANGED <<server, repair, tx, handed, sentFile>>
    /\ UNCHANGED <<server, progress, rx, inflight, upstream, net, codec>>

WakeNext ==
    \/ WakeSendFile
    \/ WakeChunkArrayBuffer
    \/ WakeDrainTimer
    \/ WakeRequestArrives
    \/ WakeResendArrayBuffer
    \/ WakeTransmit
    \/ WakeBufferedAmountLow

WakeSpec == WakeInit /\ [][WakeNext]_vars

\* the transport goes on transmitting, queued events are dispatched,
\* arrayBuffer promises resolve and the drain timer fires
FairWakeSpec ==
    /\ WakeSpec
    /\ WF_vars(WakeTransmit)
    /\ WF_vars(WakeBufferedAmountLow)
    /\ WF_vars(WakeChunkArrayBuffer)
    /\ WF_vars(WakeResendArrayBuffer)
    /\ WF_vars(WakeDrainTimer)

(***************************************************************************)
(* Claims settled under Spec                                               *)
(***************************************************************************)
\* every chunk index of the declared transfer is in the store
AllChunksPresent(r) ==
    \A i \in 0..(r.expectedChunks - 1) : MapHas(r.receivedChunks, i)

\* C1: between two file-metadata messages onFileReceived is called at most
\* once, however often reconstructAndDownloadFile is triggered, and it has
\* been called exactly once whenever the transfer has chunks and every one
\* of them has been accepted.
C1_ExactlyOnce ==
    /\ rx.deliveries <= 1
    /\ (rx.expectedChunks > 0 /\ AllChunksPresent(rx)) => rx.deliveries = 1

\* one delivery, after at least two file-complete messages found the store
\* short and the full store then triggered reconstruction
C1_Witness ==
    /\ rx.deliveries = 1
    /\ rx.expectedChunks = 2
    /\ rx.missingChunkRetries >= 2
    /\ AllChunksPresent(rx)

\* C2: whenever onFileReceived has been called, no slot of the assembled
\* array is undefined: every index of [0, expectedChunks) was in
\* receivedChunks at the call.
C2_NoPartialBlob ==
    rx.deliveries > 0 =>
        \A i \in DOMAIN rx.deliveredBlob : rx.deliveredBlob[i] # Undefined

\* C6: between two file-metadata messages at most MAX_RETRIES repair
\* requests are sent, missingChunkRetries never exceeds MAX_RETRIES, and once
\* the counter is at the maximum no step sends a further request.
C6_BoundedRepair ==
    /\ [](rx.requests <= rx.missingChunkRetries
            /\ rx.missingChunkRetries <= MAX_RETRIES)
    /\ [][rx.missingChunkRetries = MAX_RETRIES
            => rx'.requests <= rx.requests]_vars

\* the counter is at the maximum, every attempt sent a request, and one more
\* attempt has found chunks missing
C6_Witness ==
    /\ rx.missingChunkRetries = MAX_RETRIES
    /\ rx.requests = MAX_RETRIES
    /\ rx.exhausted

\* C7: once a reconstruction attempt has found chunks missing with the
\* retries used up, the transfer is failed for good: until the next
\* file-metadata no chunk packet is accepted and the delivery callback does
\* not fire.
C7_ExhaustionTerminal ==
    [][(rx.exhausted /\ rx'.exhausted)
        => (rx'.receivedChunks = rx.receivedChunks
            /\ rx'.deliveries = rx.deliveries)]_vars

\* C17: an index is a key of receivedChunks only if a packet carrying that
\* index, with a payload matching its checksum byte, has arrived since the
\* last file-metadata; a packet whose payload does not match leaves the
\* store, the retry counter and the triggered flag as they were and causes
\* neither a delivery nor a repair request.
C17_StoreIntegrity ==
    /\ [](DOMAIN rx.receivedChunks \subseteq net.arrived)
    /\ [][net'.mismatch
            => /\ rx'.receivedChunks = rx.receivedChunks
               /\ rx'.missingChunkRetries = rx.missingChunkRetries
               /\ rx'.fileReconstructionTriggered = rx.fileReconstructionTriggered
               /\ rx'.deliveries = rx.deliveries
               /\ rx'.requests = rx.requests]_vars

\* a packet with a wrong checksum byte has just arrived for the one chunk
\* still missing, after a repair request
C17_Witness ==
    /\ net.mismatch
    /\ rx.expectedChunks = 2
    /\ DOMAIN rx.receivedChunks = {0}
    /\ rx.requests >= 1
    /\ rx.deliveries = 0

\* C22: a binary message shorter than the 3-byte header changes nothing of
\* the receiver: the store, expectedChunks, the retry counter, the triggered
\* flag and what it has delivered and requested are as before, and the
\* handler returns.
C22_ShortPacketDiscarded ==
    [][net'.last = "short" => rx' = rx]_vars

\* a short message has just arrived in a transfer that holds one of its two
\* chunks and has asked for the other
C22_Witness ==
    /\ net.last = "short"
    /\ rx.expectedChunks = 2
    /\ DOMAIN rx.receivedChunks = {1}
    /\ rx.missingChunkRetries = 1
    /\ rx.deliveries = 0

\* C23: a text message that is no control message changes nothing of the
\* receiver, and the transfer goes on: a packet that then completes the
\* store leads to the delivery.
C23_MalformedControlDiscarded ==
    [][/\ net'.last = "malformed" => rx' = rx
       /\ (/\ net.last = "malformed"
           /\ rx.expectedChunks > 0
           /\ ~AllChunksPresent(rx)
           /\ rx'.expectedChunks = rx.expectedChunks
           /\ AllChunksPresent(rx'))
          => rx'.deliveries = 1]_vars

\* a malformed text has just arrived in a transfer that holds one of its
\* two chunks
C23_Witness ==
    /\ net.last = "malformed"
    /\ rx.expectedChunks = 2
    /\ DOMAIN rx.receivedChunks = {0}
    /\ rx.missingChunkRetries = 0
    /\ rx.deliveries = 0

\* C26: once close() has been called the store is empty, and no message
\* handled afterwards adds a key to it, causes a delivery or a repair
\* request.
C26_CloseTerminal ==
    /\ [](rx.closed => rx.receivedChunks = <<>>)
    /\ [][rx.closed
            => /\ DOMAIN rx'.receivedChunks \subseteq DOMAIN rx.receivedChunks
               /\ rx'.deliveries <= rx.deliveries
               /\ rx'.requests <= rx.requests]_vars

\* C28: when a file-metadata message has been handled the store is empty,
\* expectedChunks, the file's name, size and type are the declared ones, the
\* retry counter is 0 and the triggered flag is false, whatever the transfer
\* was before: new, mid-transfer, delivered or out of retries.
C28_MetadataReset ==
    net.last = "metadata" =>
        /\ rx.receivedChunks = <<>>
        /\ rx.expectedChunks = net.declared.totalChunks
        /\ rx.currentFileName = net.declared.fileName
        /\ rx.currentFileSize = net.declared.fileSize
        /\ rx.currentFileType = net.declared.fileType
        /\ rx.missingChunkRetries = 0
        /\ ~rx.fileReconstructionTriggered

\* a file-metadata message declaring two chunks has just arrived at a
\* receiver that had used up its retries
C28_Witness ==
    /\ net.last = "metadata"
    /\ net.before = "exhausted"
    /\ net.declared.totalChunks = 2
    /\ rx.expectedChunks = 2

\* the same after a delivery, and in the middle of a transfer
C28_WitnessDelivered ==
    net.last = "metadata" /\ net.before = "delivered"

C28_WitnessMidTransfer ==
    net.last = "metadata" /\ net.before = "mid-transfer"

\* C31: a valid packet for an index the store already holds leaves the
\* store's key set and size as they were, replaces the bytes of at most that
\* one key, and causes no delivery, no repair request and no use of a retry.
C31_IdempotentInsert ==
    [][net'.dup
       => /\ DOMAIN rx'.receivedChunks = DOMAIN rx.receivedChunks
          /\ MapSize(rx'.receivedChunks) = MapSize(rx.receivedChunks)
          /\ Cardinality({k \in DOMAIN rx.receivedChunks :
                 rx'.receivedChunks[k] # rx.receivedChunks[k]}) <= 1
          /\ rx'.deliveries = rx.deliveries
          /\ rx'.requests = rx.requests
          /\ rx'.missingChunkRetries = rx.missingChunkRetries]_vars

\* a second valid packet for index 0 has just arrived in a transfer of two
\* chunks that holds chunk 0 alone
C31_Witness ==
    /\ net.dup
    /\ rx.expectedChunks = 2
    /\ DOMAIN rx.receivedChunks = {0}
    /\ rx.deliveries = 0

\* the same after the delivery
C31_WitnessDelivered ==
    /\ net.dup
    /\ rx.expectedChunks = 2
    /\ DOMAIN rx.receivedChunks = {0, 1}
    /\ rx.deliveries = 1

\* C32: once a file-metadata message has been handled every key of the
\* store is below expectedChunks, so that the size of the store is the
\* number of the transfer's chunks it holds.
C32_KeyRange ==
    net.metadataDelivered =>
        /\ \A k \in DOMAIN rx.receivedChunks : k \in 0..(rx.expectedChunks - 1)
        /\ MapSize(rx.receivedChunks)
             = Cardinality({i \in 0..(rx.expectedChunks - 1) :
                              MapHas(rx.receivedChunks, i)})

\* C33: once the blob of a transfer has been delivered the store is empty,
\* and a packet handled after the delivery does not change the store.
C33_StoreLifecycle ==
    /\ [](rx.deliveries > 0 => rx.receivedChunks = <<>>)
    /\ [][(rx.deliveries > 0 /\ net'.last = "packet")
            => rx'.receivedChunks = rx.receivedChunks]_vars

\* the second half alone: the delivered store takes no packet
C33_ReadOnlyAfterDelivery ==
    [][(rx.deliveries > 0 /\ net'.last = "packet")
        => rx'.receivedChunks = rx.receivedChunks]_vars

\* the indices below expectedChunks that the store does not hold
MissingSet(r) ==
    {i \in 0..(r.expectedChunks - 1) : i \notin DOMAIN r.receivedChunks}

\* C29: a reconstruction attempt that finds the store short with retries
\* left adds exactly one to the retry counter and delivers nothing; it sends
\* a request-missing-chunks message only if some index below expectedChunks
\* is missing, and the message's indices are then exactly the missing ones.
C29_RepairRequest ==
    [][(/\ net'.last = "complete"
        /\ ~rx.fileReconstructionTriggered
        /\ MapSize(rx.receivedChunks) # rx.expectedChunks
        /\ rx.missingChunkRetries < MAX_RETRIES)
       => /\ rx'.missingChunkRetries = rx.missingChunkRetries + 1
          /\ rx'.deliveries = rx.deliveries
          /\ ~rx'.fileReconstructionTriggered
          /\ rx'.receivedChunks = rx.receivedChunks
          /\ IF MissingSet(rx) = {}
             THEN rx'.requests = rx.requests
             ELSE /\ rx'.requests = rx.requests + 1
                  /\ {rx'.requestedIndices[k] :
                         k \in DOMAIN rx'.requestedIndices} = MissingSet(rx)
                  /\ Len(rx'.requestedIndices) = Cardinality(MissingSet(rx))]_vars

\* file-complete has just found one of two chunks stored and the second
\* request of the transfer names the other
C29_Witness ==
    /\ net.last = "complete"
    /\ rx.expectedChunks = 2
    /\ DOMAIN rx.receivedChunks = {0}
    /\ rx.missingChunkRetries = 2
    /\ rx.requests = 2
    /\ rx.requestedIndices = <<1>>
    /\ rx.deliveries = 0

\* file-complete has just found a store that differs from expectedChunks
\* with no index missing: the counter is up and no request was sent
C29_WitnessNothingMissing ==
    /\ net.last = "complete"
    /\ MapSize(rx.receivedChunks) # rx.expectedChunks
    /\ MissingSet(rx) = {}
    /\ rx.missingChunkRetries = 1
    /\ rx.requests = 0

\* C37: a repair request is handed to channel 0 only while the channel set
\* holds it, and a reconstruction attempt that finds indices missing uses a
\* retry only if its request was handed to the channel.
C37_FlowControllerGate ==
    [][/\ rx'.requests > rx.requests => ~rx.closed
       /\ (/\ rx'.missingChunkRetries > rx.missingChunkRetries
           /\ MissingSet(rx) # {})
          => rx'.requests > rx.requests]_vars

\* C39: in the earlier generation of the receiver, between two
\* file-metadata messages the blob is delivered at most once, the flag once
\* set stays set and nothing is delivered while it is, and after a
\* file-complete that found the store short nothing is delivered, whatever
\* arrives.
C39_SupersededOneAttempt ==
    [][/\ rx'.deliveries <= 1
       /\ net'.earlyComplete => rx'.deliveries = 0
       /\ (rx.fileReconstructionTriggered /\ net'.last # "metadata")
            => /\ rx'.fileReconstructionTriggered
               /\ rx'.deliveries = rx.deliveries]_vars

\* file-complete came with one of two chunks stored, the other chunk has
\* arrived since, and nothing is delivered
C39_Witness ==
    /\ net.earlyComplete
    /\ net.last = "packet"
    /\ rx.expectedChunks = 2
    /\ DOMAIN rx.receivedChunks = {0, 1}
    /\ rx.fileReconstructionTriggered
    /\ rx.deliveries = 0

\* C40: every socket id activeRooms lists for a room is a connected socket
\* that joined the room, and a room of the storage that has a participant
\* is marked active.
C40_RoomBookkeeping ==
    \A roomId \in DOMAIN server.activeRooms :
        /\ \A socket \in server.activeRooms[roomId] :
             /\ socket \in server.connected
             /\ <<socket, roomId>> \in server.joined
        /\ (server.activeRooms[roomId] # {} /\ roomId \in DOMAIN server.rooms)
             => server.rooms[roomId].isActive

\* the first half alone
C40_ParticipantsConnected ==
    \A roomId \in DOMAIN server.activeRooms :
        \A socket \in server.activeRooms[roomId] :
            /\ socket \in server.connected
            /\ <<socket, roomId>> \in server.joined

(***************************************************************************)
(* Claims settled under CodecSpec and TransferSpec                         *)
(***************************************************************************)
\* C3: every chunk i of a blob, framed by createPacket and decoded by
\* handleDataChannelMessage, is in the store under index i with the bytes of
\* the source, so that assembling slots 0..totalChunks-1 gives back the blob.
C3_RoundTrip ==
    (codec.stage = "received" /\ ~codec.flipped) =>
        /\ MapHas(rx.receivedChunks, codec.index)
        /\ rx.receivedChunks[codec.index] = codec.data

\* C24: the index createPacket writes into the header is the chunk's index:
\* no two chunks of a blob go out under the same wire index.
C24_IndexWidth ==
    codec.stage \in {"packet", "received"} =>
        GetUint16LE(codec.packet) = codec.index

\* C25: a packet made by createPacket that reaches the receiver with one bit
\* of its payload inverted is rejected: nothing is stored and nothing is
\* delivered.
C25_ChecksumSensitivity ==
    (codec.stage = "received" /\ codec.flipped) =>
        (rx.receivedChunks = <<>> /\ rx.deliveries = 0)

\* the packet of a two-byte chunk arrived with a bit of its second byte
\* inverted
C25_Witness ==
    /\ codec.stage = "received"
    /\ codec.flipped
    /\ Len(codec.data) = 2
    /\ codec.packet[4] = codec.data[1]
    /\ codec.packet[5] # codec.data[2]

RECURSIVE Flatten(_)
\* the bytes of new Blob(chunks)
Flatten(chunks) ==
    IF chunks = <<>> THEN <<>> ELSE Head(chunks) \o Flatten(Tail(chunks))

RECURSIVE FeedInOrder(_, _, _)
FeedInOrder(r, file, i) ==
    IF i >= TotalChunks(file) THEN r
    ELSE FeedInOrder(handleDataChannelMessage(r, ChunkPacket(file, i)), file, i + 1)

\* the receiver after file-metadata and the packets 0, 1, ... in index order
InOrderRx(file) ==
    FeedInOrder(handleDataChannelMessage(RxInit, FileMetadata(file)), file, 0)

AllIndices(file) == 0..(TotalChunks(file) - 1)

\* C4: after file-metadata, once the network has delivered every chunk
\* packet of the blob, in whatever order, there has been exactly one
\* delivery, and its blob is the one delivered when the packets arrive in
\* index order.
C4_OutOfOrder ==
    (/\ net.metadataDelivered
     /\ TotalChunks(sentFile) >= 1
     /\ net.arrived = AllIndices(sentFile))
    => /\ rx.deliveries = 1
       /\ rx.deliveredBlob = InOrderRx(sentFile).deliveredBlob

\* three or more packets, all arrived, some after a packet of higher index
C4_Witness ==
    /\ net.outOfOrder
    /\ TotalChunks(sentFile) >= 3
    /\ net.arrived = AllIndices(sentFile)
    /\ rx.deliveries = 1

\* the initial delivery is over when file-complete arrives, and it withheld
\* a non-empty set of chunks
GapScenario(n) == n.completeDelivered /\ ~n.earlyComplete /\ n.withheld # {}

\* C5: when file-complete arrives after an initial delivery that withheld a
\* non-empty set W of chunks, the receiver sends one request-missing-chunks
\* message whose indices are W, and once the chunks of W have been supplied
\* there has been one delivery, of the full blob.
C5_GapRepair ==
    /\ [][(~net.completeDelivered /\ GapScenario(net'))
            => /\ rx'.requests = rx.requests + 1
               /\ SeqRange(rx'.requestedIndices) = net.withheld
               /\ rx'.requestedIndices \in upstream']_vars
    /\ []((GapScenario(net) /\ net.withheld \subseteq net.arrived)
            => /\ rx.deliveries = 1
               /\ Flatten(rx.deliveredBlob) = sentFile)

\* two chunks withheld, requested, resent and delivered
C5_Witness ==
    /\ GapScenario(net)
    /\ Cardinality(net.withheld) = 2
    /\ net.resends = 1
    /\ net.withheld \subseteq net.arrived
    /\ rx.deliveries = 1

\* C18: with no file-complete received, the step in which the last missing
\* chunk packet of a blob arrives is the step of the one delivery, and the
\* blob delivered has the bytes of the source.
C18_CompletionLossTolerated ==
    /\ []((/\ ~net.completeDelivered
           /\ TotalChunks(sentFile) >= 1
           /\ net.arrived = AllIndices(sentFile))
          => /\ rx.deliveries = 1
             /\ Flatten(rx.deliveredBlob) = sentFile)
    /\ [][(/\ ~net'.completeDelivered
           /\ net.arrived # AllIndices(sentFile)
           /\ net'.arrived = AllIndices(sentFile))
          => (rx.deliveries = 0 /\ rx'.deliveries = 1)]_vars

\* a blob of three or more chunks delivered, nothing left in flight, and
\* file-complete not received
C18_Witness ==
    /\ ~net.completeDelivered
    /\ inflight = {}
    /\ TotalChunks(sentFile) >= 3
    /\ net.arrived = AllIndices(sentFile)
    /\ rx.deliveries = 1
    /\ rx.requests = 0

\* C19: after a file-complete that arrived with chunk packets still on their
\* way, the transfer stays open while chunks are missing, and once every
\* chunk has arrived there has been exactly one delivery, of the blob with
\* the bytes of the source.
C19_EarlyCompletionTolerated ==
    /\ rx.deliveries <= 1
    /\ (net.earlyComplete /\ net.arrived # AllIndices(sentFile))
        => (rx.deliveries = 0 /\ ~rx.fileReconstructionTriggered)
    /\ (net.earlyComplete /\ net.arrived = AllIndices(sentFile))
        => (rx.deliveries = 1 /\ Flatten(rx.deliveredBlob) = sentFile)

\* file-complete overtook chunk packets, the chunks it reported missing were
\* resent, and originals and resent copies have all arrived
C19_Witness ==
    /\ net.earlyComplete
    /\ net.resends >= 1
    /\ inflight = {}
    /\ TotalChunks(sentFile) >= 3
    /\ net.arrived = AllIndices(sentFile)
    /\ net.withheld = {}
    /\ rx.deliveries = 1

\* C21: once file-metadata and file-complete have been received, the
\* receiver eventually delivers the blob or gives up with its retries used
\* up, also when resent chunks are lost again.
C21_BoundedLiveness ==
    (net.metadataDelivered /\ net.completeDelivered)
        ~> (rx.deliveries = 1 \/ rx.exhausted)

(***************************************************************************)
(* Claims settled under ProgressSpec                                       *)
(***************************************************************************)
\* C27: in every call of updateProgress no divisor is zero, the reported
\* timeRemaining is not negative, and it is 0 whenever speed <= 0.
C27_ProgressArithmetic ==
    progress.report.called =>
        /\ ~progress.report.divisorZero
        /\ progress.report.speed.den # 0
        /\ progress.report.timeRemaining.den # 0
        /\ progress.report.timeRemaining.num
             * progress.report.timeRemaining.den >= 0
        /\ (progress.report.speed.num * progress.report.speed.den <= 0
            => progress.report.timeRemaining.num = 0)

\* the same, for transfers that declare a size above zero
C27_ExceptEmptyBlob ==
    (progress.report.called /\ ~progress.report.divisorZero) =>
        progress.report.timeRemaining.num
            * progress.report.timeRemaining.den >= 0

\* C35: a report made behind the test of the chunk loop, or of the packet
\* branch, is more than 100 ms after the report before it on the same path;
\* the reports after the loop and at delivery are made behind no test.
C35_ProgressThrottled ==
    (progress.sample.path \in {"sender", "receiver"}
     /\ progress.sample.previous # -1)
        => progress.sample.at - progress.sample.previous > THROTTLE_MS

\* a second report of the chunk loop, 101 ms after the first
C35_Witness ==
    /\ progress.sample.path = "sender"
    /\ progress.sample.previous = Epoch
    /\ progress.sample.at = Epoch + 101

\* an iteration 100 ms after a report makes none
C35_WitnessSuppressed ==
    /\ progress.sending
    /\ progress.sent > ChunkSize
    /\ progress.senderPrev = Epoch
    /\ progress.clock = Epoch + 100
    /\ progress.sample.path = "none"
    /\ progress.lastProgressUpdateTime = Epoch

\* the report after the loop is made in the millisecond of a loop's report
C35_WitnessFinal ==
    /\ progress.sample.path = "senderFinal"
    /\ progress.sample.previous = progress.sample.at

(***************************************************************************)
(* Claims settled under SendSpec                                           *)
(***************************************************************************)
IsChunkPacket(e) == e.data.kind = "binary"

\* the positions of handed that this step has added
NewlyHanded == (Len(handed) + 1)..Len(handed')

CompleteHanded(out) == \E k \in 1..Len(out) : out[k].data = CompleteMsg

\* C8: no chunk packet is handed to a channel unless file-metadata has been
\* handed to channel 0 before it.
C8_MetadataFirst ==
    \A k \in 1..Len(handed) :
        IsChunkPacket(handed[k]) =>
            \E j \in 1..(k - 1) :
                /\ handed[j].channel = 0
                /\ handed[j].data = FileMetadata(sentFile)

\* C9: the step that hands file-complete does so on channel 0, with every
\* chunk of the blob already passed to sendWithBackpressure, and its drain
\* check saw bufferedAmount = 0 on every channel of the set.
C9_DrainBeforeComplete ==
    [][(CompleteHanded(handed') /\ ~CompleteHanded(handed))
        => /\ \A c \in Channels : activeChannels[c].bufferedAmount = 0
           /\ tx'.i = TotalChunks(sentFile')
           /\ handed'[Len(handed')] = [channel |-> 0, data |-> CompleteMsg]]_vars

\* file-complete handed after chunk packets went out on both channels
C9_Witness ==
    /\ CompleteHanded(handed)
    /\ tx.pc = "done"
    /\ \E k \in 1..Len(handed) : IsChunkPacket(handed[k]) /\ handed[k].channel = 1
    /\ \E k \in 1..Len(handed) : IsChunkPacket(handed[k]) /\ handed[k].channel = 0

\* C10: a step hands data to a channel only if the channel's bufferedAmount
\* is at most its bufferedAmountLowThreshold; sendWithBackpressure suspends
\* only on a channel over its threshold, and a suspended call goes on only
\* in the step that dispatches that channel's bufferedamountlow event.
C10_Backpressure ==
    [][/\ \A k \in NewlyHanded :
            activeChannels[handed'[k].channel].bufferedAmount
                <= activeChannels[handed'[k].channel].bufferedAmountLowThreshold
       /\ (tx'.pc = "suspended" /\ tx.pc # "suspended")
            => activeChannels[tx'.channel].bufferedAmount
                 > activeChannels[tx'.channel].bufferedAmountLowThreshold
       /\ (tx.pc = "suspended" /\ (tx'.pc # "suspended" \/ handed' # handed))
            => /\ activeChannels[tx.channel].lowEvent
               /\ ~activeChannels'[tx.channel].lowEvent]_vars

\* a send that was suspended, resumed by the event, and a transfer that
\* then ran to its end
C10_Witness ==
    /\ tx.resumes >= 1
    /\ tx.pc = "done"
    /\ CompleteHanded(handed)

\* C11: a sendWithBackpressure call suspended on a channel that has closed
\* does not stay suspended: it is eventually resumed.
C11_SuspensionEndsOnClose ==
    (tx.pc = "suspended" /\ activeChannels[tx.channel].readyState = "closed")
        ~> (tx.pc # "suspended")

\* the chunk's sendWithBackpressure call reaches its readiness check on
\* channel c in this step: called with the chunk's arrayBuffer, or resumed by
\* the channel's bufferedamountlow event
ChunkSendChecks(c) ==
    \/ tx.pc = "chunks" /\ tx' # tx /\ tx.channelIndex = c
    \/ /\ tx.pc = "suspended" /\ tx.sending = "chunk" /\ tx.channel = c
       /\ activeChannels[c].lowEvent /\ ~activeChannels'[c].lowEvent

\* C12: when the sendWithBackpressure call of chunk i finds its channel not
\* open, nothing is handed to that channel, sendFile does not fail, and the
\* loop goes on to chunk i + 1 on the next channel.
C12_ClosedChannelDegraded ==
    [][\A c \in Channels :
        (/\ ChunkSendChecks(c)
         /\ activeChannels[c].readyState # "open"
         /\ activeChannels[c].bufferedAmount
              <= activeChannels[c].bufferedAmountLowThreshold)
        => /\ \A k \in NewlyHanded : handed'[k].channel # c
           /\ tx'.pc # "failed"
           /\ tx'.i = tx.i + 1
           /\ tx'.channelIndex = (c + 1) % NumChannels]_vars

\* chunk 1 was skipped on the closed channel 1, chunk 2 then went out on
\* channel 0, and sendFile returned
C12_Witness ==
    /\ tx.pc = "done"
    /\ activeChannels[1].readyState = "closed"
    /\ \A k \in 1..Len(handed) : handed[k].data # ChunkPacket(sentFile, 1)
    /\ \E k \in 1..Len(handed) :
        handed[k] = [channel |-> 0, data |-> ChunkPacket(sentFile, 2)]

\* sendFile is in its chunk loop: awaiting a chunk's arrayBuffer, or
\* suspended in a chunk's sendWithBackpressure
InChunkLoop == tx.pc = "chunks" \/ (tx.pc = "suspended" /\ tx.sending = "chunk")

\* C13: with every channel of the set closed during the chunk loop, sendFile
\* does not run to its end and return normally.
C13_AllClosedFails ==
    [][(InChunkLoop /\ \A c \in Channels : activeChannels[c].readyState = "closed")
        => tx'.pc # "done"]_vars

\* C14: sendFile is in its initial wait only while no channel of the set is
\* open: it goes on to the metadata as soon as one channel is open.
C14_OneOpenChannelSuffices ==
    tx.pc = "awaitOpen" =>
        \A c \in Channels : activeChannels[c].readyState # "open"

\* sendFile has left its chunk loop
PastChunkLoop ==
    \/ tx.pc \in {"draining", "done"}
    \/ tx.pc = "suspended" /\ tx.sending = "complete"

\* C15: the k-th sendWithBackpressure call of the chunk loop carries chunk
\* k - 1, framed with that index around the bytes
\* [(k-1)*chunkSize, min(k*chunkSize, size)) of the blob, on channel
\* (k - 1) mod channelCount; once the loop is left there have been
\* ceil(size / chunkSize) calls.
C15_RoundRobin ==
    /\ \A k \in 1..Len(tx.passed) :
        tx.passed[k] =
            [channel |-> (k - 1) % NumChannels,
             data |-> BinaryMsg(createPacket(k - 1,
                        SubSeq(sentFile, (k - 1) * ChunkSize + 1,
                               Min(k * ChunkSize, Len(sentFile)))))]
    /\ PastChunkLoop =>
        Len(tx.passed) * ChunkSize \in
            Len(sentFile)..(Len(sentFile) + ChunkSize - 1)

\* a blob whose last chunk is short, every chunk passed, each channel used
\* twice
C15_Witness ==
    /\ tx.pc = "done"
    /\ Len(tx.passed) >= 2 * NumChannels
    /\ Len(sentFile) % ChunkSize # 0

(***************************************************************************)
(* Claims settled under ChannelSpec                                        *)
(***************************************************************************)
\* sendFile and resendChunks have returned, no request is on its way, and
\* every message handed to a channel has reached the receiver
Quiescent ==
    /\ tx.pc = "done"
    /\ upstream = {}
    /\ \A c \in Channels : net.recv[c] = Len(ChannelLog(handed, c))

\* C16: every text message the sending manager hands to a channel
\* (file-metadata, file-complete) is handed to channel 0, and every
\* request-missing-chunks the receiving manager sends is sent on channel 0 of
\* its channel set.
C16_ControlChannel ==
    /\ [](\A k \in 1..Len(handed) :
            handed[k].data.kind = "string" => handed[k].channel = 0)
    /\ [][\A q \in upstream' \ upstream :
            IsType(q.data, "request-missing-chunks") /\ q.channel = 0]_vars

\* the three kinds of control message have been sent: file-metadata,
\* file-complete, and a repair request that the sender has served
C16_Witness ==
    /\ \E k \in 1..Len(handed) : IsType(handed[k].data, "file-metadata")
    /\ \E k \in 1..Len(handed) : IsType(handed[k].data, "file-complete")
    /\ rx.requests >= 1
    /\ net.resends >= 1

\* C20: however the messages of the channels interleave on their way to the
\* receiver, chunk packets overtaking file-metadata included, there is never
\* a second delivery, a delivered blob has the bytes of the source, and once
\* every message has arrived there has been exactly one delivery.
C20_CrossChannelInterleaving ==
    /\ rx.deliveries <= 1
    /\ rx.deliveries = 1 => Flatten(rx.deliveredBlob) = sentFile
    /\ Quiescent => rx.deliveries = 1

\* chunk packets reached the receiver before file-metadata, and the transfer
\* of a blob of three or more chunks has ended with its one delivery
C20_Witness ==
    /\ Quiescent
    /\ net.overtaken
    /\ TotalChunks(sentFile) >= 3
    /\ rx.deliveries = 1

\* the file-metadata messages the receiver has handled
MetadataHandled ==
    Cardinality({k \in 1..net.recv[0] :
                   IsType(ChannelLog(handed, 0)[k].data, "file-metadata")})

\* the chunks of a blob, in order
ChunksOf(file) == [n \in 1..TotalChunks(file) |-> FileSlice(file, n - 1)]

\* C34: once the file-metadata of the second transfer has been handled, a
\* blob delivered is made of the chunks of the second blob only, also when
\* packets of the first transfer arrive after that file-metadata.
C34_TransferIsolation ==
    (MetadataHandled = 2 /\ rx.deliveries > 0)
        => rx.deliveredBlob = ChunksOf(sentFile)

\* C36: with the channels open, a sendFile call and a resendChunks call that
\* are suspended in sendWithBackpressure are each resumed in the end.
C36_NoLostWakeup ==
    /\ (tx.pc = "suspended") ~> (tx.pc # "suspended")
    /\ (repair.tx.pc = "suspended") ~> (repair.tx.pc # "suspended")

\* a suspended caller's closure is the handler of the channel it waits for
C36_HandlerKept ==
    /\ tx.pc = "suspended" => repair.owner[tx.channel] = "sendFile"
    /\ repair.tx.pc = "suspended"
         => repair.owner[repair.tx.channel] = "resendChunks"

\* C38: for a blob of size 0 sendFile hands to the channels a file-metadata
\* declaring 0 chunks and, last, file-complete, both on channel 0, and no
\* packet; the receiver sends no request, and it has delivered, once and
\* the empty blob, exactly when file-complete has arrived.
C38_EmptyBlob ==
    (sentFile = <<>> /\ tx.pc # "idle") =>
        /\ \A k \in DOMAIN handed : handed[k].data.kind = "string"
        /\ Len(handed) <= 2
        /\ Len(handed) >= 1 =>
              handed[1] = [channel |-> 0,
                           data |-> MetadataMsg("a.bin", 0,
                                        "application/octet-stream", 0)]
        /\ Len(handed) = 2 => handed[2] = [channel |-> 0, data |-> CompleteMsg]
        /\ tx.pc = "done" => Len(handed) = 2
        /\ rx.requests = 0
        /\ rx.missingChunkRetries = 0
        /\ rx.deliveries = (IF net.completeDelivered THEN 1 ELSE 0)
        /\ rx.deliveries = 1 => rx.deliveredBlob = <<>>

\* the empty blob has been delivered
C38_Witness ==
    /\ sentFile = <<>>
    /\ Quiescent
    /\ net.completeDelivered
    /\ rx.deliveries = 1
    /\ rx.deliveredBlob = <<>>

\* file-metadata of the empty blob has arrived and file-complete has not:
\* nothing is delivered
C38_WitnessWaiting ==
    /\ sentFile = <<>>
    /\ net.metadataDelivered
    /\ ~net.completeDelivered
    /\ rx.deliveries = 0

\* C30: every packet resendChunks passes to sendWithBackpressure goes to
\* channel 0 and has the bytes of the packet the chunk loop passed for the
\* same index; and from the start of sendFile on sentFile is set and is the
\* blob the chunk loop's packets were made from.
C30_ResendEqualsInitial ==
    /\ \A n \in DOMAIN tx.resent :
         /\ tx.resent[n].channel = 0
         /\ tx.resent[n].index + 1 \in DOMAIN tx.passed
         /\ tx.resent[n].data = tx.passed[tx.resent[n].index + 1].data
    /\ tx.pc # "idle" => sentFile # NoFile
    /\ \A n \in DOMAIN tx.passed :
         tx.passed[n].data = ChunkPacket(sentFile, n - 1)

\* a request for chunk 1 alone has been answered, and the resent packet
\* has reached the receiver, after an initial send on both channels
C30_Witness ==
    /\ Quiescent
    /\ Len(tx.resent) >= 1
    /\ tx.resent[1].index = 1
    /\ tx.passed[2].channel = 1
    /\ rx.deliveries = 1

=============================================================================
